---- MODULE Spec2Model ----
(***************************************************************************)
(* Verification model of three subsystems of zksync-airbender:             *)
(*   - the constraint algebra (cs/src/constraint.rs),                      *)
(*   - the CPU tracing worker (gpu_prover/src/execution/cpu_worker.rs),    *)
(*   - the recursion strategy planner (execution_utils/src/recursion.rs).  *)
(* Pure functions are operators; each subsystem has its own specification  *)
(* over the shared variables.                                              *)
(***************************************************************************)
EXTENDS Integers, Sequences, FiniteSets

VARIABLES
    \* constraint algebra: operands, selected variable, operation, outcome
    self_terms, alg_in, rhs_terms, variable, alg_op, alg_out, alg_val,
    \* recursion planner: strategy, metadata, level, operation, outcome
    strategy, proof_metadata, proof_level, rec_op, rec_out,
    \* tracing worker: parameters of the run
    mode, circuit_type, skip_set, num_main_chunks_upper_bound, split_count,
    split_index,
    \* tracing worker: free allocator pool, allocators the consumer put back,
    \* chunks an allocator was received for, messages sent
    free_allocator, returned, allocations, results,
    \* tracing worker: locals of the simulation loop
    chunk_index, chunks_traced_count, end_reached, cycles_executed,
    next_chunk_index_with_no_setup_and_teardown, touched_ram_cells_count, index,
    \* tracing worker: delegation tracing states, chunk counts per type,
    \* requests met in the current chunk, type waiting for an allocator
    tracing_types, delegation_chunks_counts, requests, pending,
    \* tracing worker: position in its function and the panic that ended it
    pc, failure,
    \* end-parameter generation: which implementation, its arguments, outcome
    gc_fn, recursion_mode, universal_verifier, recompute, base_layer_bin, gc_out,
    \* constraint algebra: outcome of split_max_quadratic, outcome of the
    \* operation with its operands exchanged
    split_out, commuted_out,
    \* verifier oracle encoder: metadata, proof list, which function, outcome
    oracle_metadata, oracle_proofs, oracle_fn, oracle_out,
    \* stage-1 public inputs: the circuit's entries, the call that fails, calls
    \* made, last result, the output's field, state of the scheduled closure
    circuit_public_inputs, st1_fails, st1_calls, st1_result, public_inputs,
    st1_callback,
    \* concurrent host allocator: allocations asked for, position and pinned
    \* allocations of each caller, the global allocator (0: not initialized,
    \* else the caller whose allocations it holds), calls of initialize_global
    host_allocations_count, ctx_pc, ctx_allocations, concurrent_host_allocator,
    initialize_global_calls,
    \* memory commitment: kind of tracing data, the call that fails, upload
    \* done, calls made by the host, operations queued on the exec stream and
    \* operations it has run, the job, its Callbacks collection, the tree_caps
    \* box, result of finish
    mem_data_device, mem_fails, transfer_done, mem_calls, exec_stream, exec_done,
    mem_job, mem_callbacks, tree_caps, mem_result

alg_vars == <<self_terms, alg_in, rhs_terms, variable, alg_op, alg_out, alg_val>>
rec_vars == <<strategy, proof_metadata, proof_level, rec_op, rec_out>>
wrk_params ==
    <<mode, circuit_type, skip_set, num_main_chunks_upper_bound, split_count, split_index>>
channel_vars == <<free_allocator, returned, allocations, results>>
loop_vars == <<chunk_index, chunks_traced_count, end_reached, cycles_executed>>
touched_vars ==
    <<next_chunk_index_with_no_setup_and_teardown, touched_ram_cells_count, index>>
delegation_vars == <<tracing_types, delegation_chunks_counts, requests, pending>>
wrk_vars ==
    <<wrk_params, channel_vars, loop_vars, touched_vars, delegation_vars, pc, failure>>
gc_vars ==
    <<gc_fn, recursion_mode, universal_verifier, recompute, base_layer_bin, gc_out>>
\* the subsystems modelled after the three above
orc_vars == <<oracle_metadata, oracle_proofs, oracle_fn, oracle_out>>
st1_vars ==
    <<circuit_public_inputs, st1_fails, st1_calls, st1_result, public_inputs, st1_callback>>
ctx_vars ==
    <<host_allocations_count, ctx_pc, ctx_allocations, concurrent_host_allocator,
      initialize_global_calls>>
mem_vars ==
    <<mem_data_device, mem_fails, transfer_done, mem_calls, exec_stream, exec_done,
      mem_job, mem_callbacks, tree_caps, mem_result>>
dev_vars == <<st1_vars, ctx_vars, mem_vars>>
more_vars == <<orc_vars, dev_vars>>
ext_vars == <<gc_vars, split_out, commuted_out, more_vars>>
vars == <<alg_vars, rec_vars, wrk_vars, ext_vars>>

----------------------------------------------------------------------------
(* Bounds of the model *)

\* number of distinct circuit variables used in terms
NumVars == 2
\* largest degree of a term handed to the algebra as input
MaxTermDegree == 3
\* largest number of terms in an input constraint of SpecNormalize
MaxTerms == 3
\* largest degree of a term and largest number of terms of an operand of
\* SpecMul and SpecSubstitute
MaxOperandDegree == 2
MaxOperandTerms == 2
\* largest proof count and largest proof level in a ProofMetadata
MaxProofCount == 3
MaxProofLevel == 2
\* largest reduced_proof_count in a ProofMetadata
MaxReducedProofCount == 6
\* the domain size of the circuits is 2^LogDomainSize
LogDomainSize == 2
\* requests that fill one delegation witness
NumDelegationCycles == 2
\* largest num_main_chunks_upper_bound of a worker run
MaxChunks == 3
\* most RAM cells touched for the first time within one chunk
MaxTouchedPerChunk == 4
\* most delegation requests within one chunk
MaxRequestsPerChunk == 2
\* largest split_count of Mode B
MaxSplitCount == 2
\* most allocators in the free pool at the start of a run
MaxAllocators == 2
\* most pairs in a skip_set
MaxSkipped == 2
\* base layer binaries to generate constants for
NumBinaries == 3
\* most terms of a constraint passed to split_max_quadratic
MaxSplitTerms == 2
\* largest coefficient p of a linear factor p*v + q
MaxFactorCoeff == 2
\* largest constant q of a linear factor and largest substituted literal
MaxLiteral == 2

\* oracle encoder: proofs per main list, entries of the delegation vectors,
\* proofs per delegation type
MaxMainProofs == 1
MaxDelegationEntries == 2
MaxDelegationProofs == 1

\* stage one: entries of circuit.public_inputs, witness columns they can
\* name, calls made on one output
MaxPublicInputs == 2
NumWitnessColumns == 2
MaxStageOneCalls == 2

\* stage one: largest word another user of a released host block leaves in it
MaxStaleWord == 1

\* host allocator: threads calling the initialization, allocations asked for
NumCallers == 3
MaxHostAllocations == 2

----------------------------------------------------------------------------
(* Prime field F.  The code is generic over field::PrimeField; the model    *)
(* instantiates it with the integers modulo FieldModulus, every element     *)
(* kept in reduced form (as_u64_reduced is then the identity on 0..P-1).    *)

FieldModulus == 11
F == 0 .. (FieldModulus - 1)
F_ZERO == 0
F_ONE == 1 % FieldModulus
F_MINUS_ONE == (FieldModulus - 1) % FieldModulus
NoInverse == -1

add_assign(a, b) == (a + b) % FieldModulus
mul_assign(a, b) == (a * b) % FieldModulus
negate(a) == (FieldModulus - a) % FieldModulus
\* F::inverse: None for zero
inverse(a) == IF a % FieldModulus = 0 THEN NoInverse
              ELSE CHOOSE x \in F : (a * x) % FieldModulus = 1

----------------------------------------------------------------------------
(* Variables and terms *)

TERM_INNER_CAPACITY == 4
\* Variable::placeholder_variable(): a value no circuit variable takes
Placeholder == 0
Variables == 1 .. NumVars

Placeholders(n) == [i \in 1 .. n |-> Placeholder]

\* Term::Constant(c)
Constant(c) ==
    [kind |-> "Constant", coeff |-> c,
     inner |-> Placeholders(TERM_INNER_CAPACITY), degree |-> 0]

\* Term::Expression { coeff, inner, degree } with inner[..degree] = vs
Expression(c, vs) ==
    [kind |-> "Expression", coeff |-> c,
     inner |-> vs \o Placeholders(TERM_INNER_CAPACITY - Len(vs)),
     degree |-> Len(vs)]

\* inner[..degree]
as_slice(t) == IF t.kind = "Constant" THEN <<>> ELSE SubSeq(t.inner, 1, t.degree)

Term_is_constant(t) == t.kind = "Constant"
Term_get_coef(t) == t.coeff
Term_degree(t) == IF t.kind = "Constant" THEN 0 ELSE t.degree
Term_is_zero(t) == t.coeff = F_ZERO

\* slice comparison of two variable slices: -1 (Less), 0 (Equal), 1 (Greater)
RECURSIVE SliceCmp(_, _)
SliceCmp(s, t) ==
    IF s = <<>> /\ t = <<>> THEN 0
    ELSE IF s = <<>> THEN -1
    ELSE IF t = <<>> THEN 1
    ELSE IF Head(s) < Head(t) THEN -1
    ELSE IF Head(s) > Head(t) THEN 1
    ELSE SliceCmp(Tail(s), Tail(t))

IntCmp(a, b) == IF a < b THEN -1 ELSE IF a > b THEN 1 ELSE 0

\* [T]::is_sorted on a variable slice
is_sorted(s) == \A i \in 1 .. (Len(s) - 1) : s[i] <= s[i + 1]

\* insertion of v into the sorted slice s
RECURSIVE InsertVar(_, _)
InsertVar(s, v) ==
    IF s = <<>> THEN <<v>>
    ELSE IF v < Head(s) THEN <<v>> \o s
    ELSE <<Head(s)>> \o InsertVar(Tail(s), v)

\* inner[..degree].sort()
RECURSIVE SortVars(_)
SortVars(s) == IF s = <<>> THEN <<>> ELSE InsertVar(SortVars(Tail(s)), Head(s))

\* the assert of Term::normalize: unused slots hold the placeholder
Term_normalize_asserts(t) ==
    \/ t.kind = "Constant"
    \/ t.coeff = F_ZERO
    \/ \A i \in (t.degree + 1) .. TERM_INNER_CAPACITY : t.inner[i] = Placeholder

\* Term::normalize
Term_normalize(t) ==
    IF t.kind = "Expression" /\ t.coeff = F_ZERO THEN Constant(F_ZERO)
    ELSE IF t.kind = "Constant" THEN t
    ELSE [t EXCEPT !.inner =
            SortVars(SubSeq(t.inner, 1, t.degree))
              \o SubSeq(t.inner, t.degree + 1, TERM_INNER_CAPACITY)]

\* the outcome of Ord::cmp when one of its assert! fails
CmpPanic == 2

\* impl Ord for Term: cmp(self, other) as -1 / 0 / 1, or CmpPanic when two
\* expressions of equal degree are compared and inner[..degree] of either
\* is not sorted
Term_cmp(s, o) ==
    LET t == IntCmp(Term_degree(o), Term_degree(s)) IN
    IF t # 0 THEN t
    ELSE IF s.kind = "Constant" /\ o.kind = "Constant" THEN IntCmp(s.coeff, o.coeff)
    ELSE IF s.kind = "Constant" THEN -1
    ELSE IF o.kind = "Constant" THEN 1
    ELSE IF ~is_sorted(as_slice(s)) \/ ~is_sorted(as_slice(o)) THEN CmpPanic
    ELSE LET u == SliceCmp(as_slice(s), as_slice(o)) IN
         IF u # 0 THEN u ELSE IntCmp(s.coeff, o.coeff)

\* a bool returned by a method of Term, and the panic of a failed assert!
Returns(b) == [ok |-> TRUE, value |-> b]
AssertFails == [ok |-> FALSE, value |-> FALSE]

\* Term::same_multiple: the bool it returns, or AssertFails when a constant
\* meets an expression of its degree (assert!(*degree > 0))
Term_same_multiple(s, o) ==
    IF Term_degree(s) # Term_degree(o) THEN Returns(FALSE)
    ELSE IF s.kind = "Constant" /\ o.kind = "Constant" THEN Returns(TRUE)
    ELSE IF s.kind = "Constant"
    THEN (IF o.degree > 0 THEN Returns(FALSE) ELSE AssertFails)
    ELSE IF o.kind = "Constant"
    THEN (IF s.degree > 0 THEN Returns(FALSE) ELSE AssertFails)
    ELSE Returns(as_slice(s) = as_slice(o))

\* Term::combine: ok is FALSE when a constant meets an expression of its
\* degree (assert!(*degree > 0)); otherwise did_combine is the bool returned
\* and self is self after the call
Term_combine(s, o) ==
    IF Term_degree(s) # Term_degree(o)
    THEN [ok |-> TRUE, did_combine |-> FALSE, self |-> s]
    ELSE IF s.kind = "Constant" /\ o.kind = "Constant"
    THEN [ok |-> TRUE, did_combine |-> TRUE,
          self |-> [s EXCEPT !.coeff = add_assign(s.coeff, o.coeff)]]
    ELSE IF s.kind = "Constant"
    THEN [ok |-> o.degree > 0, did_combine |-> FALSE, self |-> s]
    ELSE IF o.kind = "Constant"
    THEN [ok |-> s.degree > 0, did_combine |-> FALSE, self |-> s]
    ELSE IF as_slice(s) = as_slice(o)
    THEN [ok |-> TRUE, did_combine |-> TRUE,
          self |-> [s EXCEPT !.coeff = add_assign(s.coeff, o.coeff)]]
    ELSE [ok |-> TRUE, did_combine |-> FALSE, self |-> s]

\* Term::scale
Term_scale(t, scaling_factor) == [t EXCEPT !.coeff = mul_assign(t.coeff, scaling_factor)]

\* Term::contains_var
Term_contains_var(t, v) ==
    t.kind = "Expression" /\ \E i \in 1 .. t.degree : t.inner[i] = v

\* Term::degree_for_var
Term_degree_for_var(t, v) ==
    IF t.kind = "Constant" THEN 0
    ELSE Cardinality({i \in 1 .. t.degree : t.inner[i] = v})

----------------------------------------------------------------------------
(* Constraints: a constraint is its term sequence.  An operation that can   *)
(* panic returns [ok |-> FALSE, terms |-> <<>>]; otherwise ok is TRUE.      *)

Ok(ts) == [ok |-> TRUE, terms |-> ts]
Panic == [ok |-> FALSE, terms |-> <<>>]

\* terms.iter_mut().for_each(|el| el.normalize())
NormalizeTerms(ts) == [i \in 1 .. Len(ts) |-> Term_normalize(ts[i])]

\* insertion of t after every element that is not greater (stable)
RECURSIVE InsertTerm(_, _)
InsertTerm(ts, t) ==
    IF ts = <<>> THEN <<t>>
    ELSE IF Term_cmp(t, Head(ts)) = -1 THEN <<t>> \o ts
    ELSE <<Head(ts)>> \o InsertTerm(Tail(ts), t)

\* a sort that leaves the terms in the order they came
SortTerms_keeps_order(ts) == ts

\* self.terms.sort(): stable sort by the Term order, when no comparison
\* panics
RECURSIVE SortTerms(_)
SortTerms(ts) ==
    IF ts = <<>> THEN <<>>
    ELSE InsertTerm(SortTerms(SubSeq(ts, 1, Len(ts) - 1)), ts[Len(ts)])

\* self.terms.sort() panics in a comparison.  A sort compares every term
\* with a neighbour of its final position, and terms of equal degree end
\* next to each other: an expression whose inner[..degree] is not sorted
\* meets an assert! of Ord::cmp as soon as another expression of its degree
\* is among the terms, whichever order the sort compares them in
SortPanics(terms) ==
    \E ts \in {terms} :
        \E i \in 1 .. Len(ts) :
            /\ ~is_sorted(as_slice(ts[i]))
            /\ \E j \in 1 .. Len(ts) : j # i /\ Term_cmp(ts[i], ts[j]) = CmpPanic

\* Constraint::degree
RECURSIVE Constraint_degree(_)
Constraint_degree(ts) ==
    IF ts = <<>> THEN 0
    ELSE LET d == Term_degree(Head(ts))
             r == Constraint_degree(Tail(ts))
         IN IF d > r THEN d ELSE r

\* the inner loop of Constraint::normalize: fold el into the first element
\* of combined that combines with it (normalizing that element), or report
\* that none did by returning combined unchanged with did_combine = FALSE;
\* ok is FALSE when a combine panics on the way
RECURSIVE CombineInto(_, _)
CombineInto(combined, el) ==
    IF combined = <<>> THEN [ok |-> TRUE, did_combine |-> FALSE, combined |-> <<>>]
    ELSE LET existing == Term_combine(Head(combined), el) IN
         IF ~existing.ok THEN [ok |-> FALSE, did_combine |-> FALSE, combined |-> <<>>]
         ELSE IF existing.did_combine
         THEN [ok |-> TRUE, did_combine |-> TRUE,
               combined |-> <<Term_normalize(existing.self)>> \o Tail(combined)]
         ELSE [CombineInto(Tail(combined), el) EXCEPT
                  !.combined = <<Head(combined)>> \o @]

\* the outer loop without its `continue`: a combined term is pushed as well
RECURSIVE CombineAll_no_continue(_, _)
CombineAll_no_continue(combined, ts) ==
    IF ts = <<>> THEN Ok(combined)
    ELSE LET r == CombineInto(combined, Head(ts)) IN
         IF ~r.ok THEN Panic
         ELSE CombineAll_no_continue(
                  Append(IF r.did_combine THEN r.combined ELSE combined, Head(ts)),
                  Tail(ts))

\* the outer loop of Constraint::normalize over self.terms.drain(..): the
\* combined terms, or Panic when a combine panics
RECURSIVE CombineAll(_, _)
CombineAll(combined, ts) ==
    IF ts = <<>> THEN Ok(combined)
    ELSE LET r == CombineInto(combined, Head(ts)) IN
         IF ~r.ok THEN Panic
         ELSE CombineAll(IF r.did_combine THEN r.combined
                         ELSE Append(combined, Head(ts)),
                         Tail(ts))

\* a filter that keeps every term
NotZero_keeps_zero(t) == TRUE

\* the filter of Constraint::normalize: el.is_zero() == false
NotZero(t) == ~Term_is_zero(t)

\* Constraint::normalize from the filter on: the asserts on the final
\* degree, the constraint that is a single zero, the second normalize and
\* sort of the terms
NormalizeFiltered(initial_degree, filtered) ==
    LET final_degree == Constraint_degree(filtered) IN
    IF final_degree > 2 THEN Panic
    ELSE IF final_degree = 0 /\ filtered = <<Constant(F_ZERO)>> THEN Ok(<<>>)
    ELSE IF SortPanics(NormalizeTerms(filtered)) THEN Panic
    ELSE IF final_degree > initial_degree THEN Panic
    ELSE Ok(SortTerms(NormalizeTerms(filtered)))

\* Constraint::normalize after the loop that combines like terms: the
\* filter that drops the zero terms
NormalizeCombined(initial_degree, combined) ==
    IF ~combined.ok THEN Panic
    ELSE NormalizeFiltered(initial_degree, SelectSeq(combined.terms, NotZero))

\* Constraint::normalize after the first sort: initial_degree and the loop
\* that combines like terms
NormalizeSorted(sorted) ==
    NormalizeCombined(Constraint_degree(sorted), CombineAll(<<>>, sorted))

\* Constraint::normalize: every term normalized, then the first sort
Constraint_normalize(ts) ==
    IF \E i \in 1 .. Len(ts) : ~Term_normalize_asserts(ts[i]) THEN Panic
    ELSE IF SortPanics(NormalizeTerms(ts)) THEN Panic
    ELSE NormalizeSorted(SortTerms(NormalizeTerms(ts)))

\* impl Mul for Term: the single term of the product constraint, or Panic
\* when degree + degree2 > 4 ("Degree overflow")
Term_mul(s, r) ==
    IF s.kind = "Expression" /\ r.kind = "Expression"
    THEN IF s.degree + r.degree > TERM_INNER_CAPACITY THEN Panic
         ELSE Ok(<<[kind |-> "Expression",
                    coeff |-> mul_assign(s.coeff, r.coeff),
                    inner |-> [i \in 1 .. TERM_INNER_CAPACITY |->
                                 IF i > s.degree /\ i <= s.degree + r.degree
                                 THEN r.inner[i - s.degree] ELSE s.inner[i]],
                    degree |-> s.degree + r.degree]>>)
    ELSE IF s.kind = "Expression"
    THEN Ok(<<[s EXCEPT !.coeff = mul_assign(s.coeff, r.coeff)]>>)
    ELSE IF r.kind = "Expression"
    THEN Ok(<<[r EXCEPT !.coeff = mul_assign(s.coeff, r.coeff)]>>)
    ELSE Ok(<<Constant(mul_assign(s.coeff, r.coeff))>>)

\* impl Add for Constraint: concatenate and normalize
Constraint_add(a, b) == Constraint_normalize(a \o b)

\* impl Sub for Constraint: concatenate the negated terms and normalize
NegateTerm(t) == Term_scale(t, F_MINUS_ONE)
NegateTerms(ts) == [i \in 1 .. Len(ts) |-> NegateTerm(ts[i])]
Constraint_sub(a, b) == Constraint_normalize(a \o NegateTerms(b))

\* Constraint::scale
RECURSIVE Constraint_scale(_, _)
Constraint_scale(ts, scaling_factor) ==
    IF ts = <<>> THEN <<>>
    ELSE <<Term_scale(Head(ts), scaling_factor)>> \o Constraint_scale(Tail(ts), scaling_factor)

\* the loop of impl Mul<Term> for Constraint: ans = ans + existing * rhs
RECURSIVE MulTermLoop(_, _, _)
MulTermLoop(ans, ts, rhs) ==
    IF ts = <<>> THEN Ok(ans)
    ELSE LET intermediate_constraint == Term_mul(Head(ts), rhs) IN
         IF ~intermediate_constraint.ok THEN Panic
         ELSE LET sum == Constraint_add(ans, intermediate_constraint.terms) IN
              IF ~sum.ok THEN Panic ELSE MulTermLoop(sum.terms, Tail(ts), rhs)

\* impl Mul<Term> for Constraint
Constraint_mul_term(ts, rhs) ==
    LET ans == MulTermLoop(<<>>, ts, rhs) IN
    IF ~ans.ok THEN Panic ELSE Constraint_normalize(ans.terms)

\* the loop of impl Mul for Constraint: ans = ans + term * rhs.clone(),
\* where Term * Constraint is rhs * term
RECURSIVE MulLoop(_, _, _)
MulLoop(ans, ts, rhs) ==
    IF ts = <<>> THEN Ok(ans)
    ELSE LET prod == Constraint_mul_term(rhs, Head(ts)) IN
         IF ~prod.ok THEN Panic
         ELSE LET sum == Constraint_add(ans, prod.terms) IN
              IF ~sum.ok THEN Panic ELSE MulLoop(sum.terms, Tail(ts), rhs)

\* impl Mul for Constraint
Constraint_mul(a, b) == MulLoop(<<>>, a, b)

\* Constraint::contains_var
Constraint_contains_var(ts, v) == \E i \in 1 .. Len(ts) : Term_contains_var(ts[i], v)

\* a degree_for_var that never counts a variable twice
Constraint_degree_for_var_capped(ts, v) ==
    IF Constraint_contains_var(ts, v) THEN 1 ELSE 0

\* Constraint::degree_for_var
RECURSIVE Constraint_degree_for_var(_, _)
Constraint_degree_for_var(ts, v) ==
    IF ts = <<>> THEN 0
    ELSE LET d == Term_degree_for_var(Head(ts), v)
             r == Constraint_degree_for_var(Tail(ts), v)
         IN IF d > r THEN d ELSE r

\* Constraint::as_constant: the value, or NoConstant when an assert fails
NoConstant == -1
Constraint_as_constant(ts) ==
    IF Constraint_degree(ts) # 0 THEN NoConstant
    ELSE IF Len(ts) # 1 THEN NoConstant
    ELSE Term_get_coef(ts[1])

\* the loop of express_variable: the prefactor left by the last term that
\* contains the variable
RECURSIVE ExpressPrefactor(_, _, _)
ExpressPrefactor(prefactor, ts, v) ==
    IF ts = <<>> THEN prefactor
    ELSE ExpressPrefactor(IF Term_contains_var(Head(ts), v) THEN Head(ts).coeff
                          ELSE prefactor, Tail(ts), v)

\* the terms express_variable keeps: those without the variable
RECURSIVE TermsWithout(_, _)
TermsWithout(ts, v) ==
    IF ts = <<>> THEN <<>>
    ELSE IF Term_contains_var(Head(ts), v) THEN TermsWithout(Tail(ts), v)
    ELSE <<Head(ts)>> \o TermsWithout(Tail(ts), v)

\* Constraint::express_variable
Constraint_express_variable(ts, v) ==
    IF ~Constraint_contains_var(ts, v) THEN Panic
    ELSE IF Constraint_degree_for_var(ts, v) # 1 THEN Panic
    ELSE LET prefactor == ExpressPrefactor(F_ZERO, ts, v)
             inv == inverse(prefactor)
         IN IF inv = NoInverse THEN Panic
            ELSE Constraint_normalize(Constraint_scale(TermsWithout(ts, v), negate(inv)))

\* the first loop of substitute_variable: the constraints to add, one per
\* term that contains the variable, or Panic
RECURSIVE SubstituteExtras(_, _, _)
SubstituteExtras(ts, v, expression) ==
    IF ts = <<>> THEN Ok(<<>>)
    ELSE LET term == Head(ts)
             rest == SubstituteExtras(Tail(ts), v, expression)
         IN IF ~Term_contains_var(term, v) THEN rest
            ELSE IF term.degree = 1
            THEN IF ~rest.ok THEN Panic
                 ELSE Ok(<<Constraint_scale(expression, term.coeff)>> \o rest.terms)
            ELSE IF term.degree # 2 THEN Panic
            ELSE LET other_var == IF term.inner[1] = v THEN term.inner[2]
                                  ELSE term.inner[1]
                     prod == Constraint_mul_term(expression,
                                                 Expression(term.coeff, <<other_var>>))
                 IN IF other_var = Placeholder \/ ~prod.ok \/ ~rest.ok THEN Panic
                    ELSE Ok(<<prod.terms>> \o rest.terms)

\* the second loop of substitute_variable: new = new + el
RECURSIVE SubstituteSum(_, _)
SubstituteSum(new, extras) ==
    IF extras = <<>> THEN Ok(new)
    ELSE LET sum == Constraint_add(new, Head(extras)) IN
         IF ~sum.ok THEN Panic ELSE SubstituteSum(sum.terms, Tail(extras))

\* Constraint::substitute_variable
Constraint_substitute_variable(ts, v, expression) ==
    IF ~Constraint_contains_var(ts, v) THEN Panic
    ELSE IF Constraint_degree_for_var(ts, v) # 1 THEN Panic
    ELSE LET extras == SubstituteExtras(ts, v, expression) IN
         IF ~extras.ok THEN Panic
         ELSE LET new == SubstituteSum(TermsWithout(ts, v), extras.terms) IN
              IF ~new.ok THEN Panic ELSE Constraint_normalize(new.terms)

----------------------------------------------------------------------------
(* Inputs of the algebra *)

\* all variable slices of length n
RECURSIVE Slices(_)
Slices(n) ==
    IF n = 0 THEN {<<>>}
    ELSE {<<v>> \o s : v \in Variables, s \in Slices(n - 1)}

\* coefficients of input terms: zero, one and minus one, so that like terms
\* can cancel, and a coefficient whose inverse is not itself
InputCoeffs == {F_ZERO, F_ONE, F_MINUS_ONE}
InputCoeffsWide == InputCoeffs \cup {2 % FieldModulus}

\* every well-formed term up to degree d with coefficients in cs: constants,
\* and expressions of degree 1..d in any variable order
TermsUpTo(d, cs) ==
    {Constant(c) : c \in cs}
      \cup UNION {{Expression(c, s) : c \in cs, s \in Slices(n)} : n \in 1 .. d}

\* all term sequences of length at most n over the term set T
RECURSIVE TermLists(_, _)
TermLists(T, n) ==
    IF n = 0 THEN {<<>>}
    ELSE LET shorter == TermLists(T, n - 1) IN
         shorter \cup {Append(ts, t) : ts \in {x \in shorter : Len(x) = n - 1}, t \in T}

NoResult == [ok |-> FALSE, terms |-> <<>>]

----------------------------------------------------------------------------
(* End-parameter generation (execution_utils/src/recursion.rs and          *)
(* tools/cli/src/generate_constants.rs).  Digests are symbolic: a digest   *)
(* is known by what it was computed from.                                  *)

NoBinary == <<"", 0>>
\* a base layer binary, one of NumBinaries programs
BaseLayerBinary(n) == <<"base_layer_bin", n>>
\* the verifier binaries that are built into the crate
VerifierBinary(name) == <<name, 0>>

Machine == {"Standard", "Reduced", "ReducedLog23", "ReducedFinal"}

\* [0u32; 8]
ZeroDigest == [kind |-> "zero", of |-> NoBinary, machine |-> "", entries |-> <<>>]

\* generate_params_for_binary(bin, machine): the end parameters of the
\* setup of the binary on the machine
generate_params_for_binary(bin, machine) ==
    [kind |-> "params", of |-> bin, machine |-> machine, entries |-> <<>>]

\* the params of a stored verification key: universal_circuit_verifier_vk(),
\* universal_circuit_log_23_verifier_vk(), recursion_layer_verifier_vk(), ..
VerifierKeyParams(name) ==
    [kind |-> "vk", of |-> VerifierBinary(name), machine |-> "", entries |-> <<>>]

\* compute_chain_encoding: digest_0 = [0; 8],
\* digest_{i+1} = H(digest_i || entry_{i+1}), kept as the chain of entries
compute_chain_encoding(data) ==
    [kind |-> "chain", of |-> NoBinary, machine |-> "", entries |-> data]

\* compute_commitment_for_chain_of_programs
compute_commitment_for_chain_of_programs(binaries_and_machines) ==
    compute_chain_encoding(
        <<ZeroDigest>> \o
        [i \in 1 .. Len(binaries_and_machines) |->
            generate_params_for_binary(binaries_and_machines[i][1],
                                       binaries_and_machines[i][2])])

Constants(end_params, aux_values) ==
    [ok |-> TRUE, end_params |-> end_params, aux_values |-> aux_values]
\* panic!("This recursion strategy is not supported for non-universal verifier.")
NoConstants == [ok |-> FALSE, end_params |-> ZeroDigest, aux_values |-> ZeroDigest]

\* generate_params_and_register_values
generate_params_and_register_values(machines_chain, last_machine) ==
    Constants(generate_params_for_binary(last_machine[1], last_machine[2]),
              compute_commitment_for_chain_of_programs(machines_chain))

\* end-parameter generation is idle in the other specifications
GcIdle ==
    /\ gc_fn = "idle"
    /\ recursion_mode = "UseReducedLog23Machine"
    /\ universal_verifier = FALSE
    /\ recompute = FALSE
    /\ base_layer_bin = NoBinary
    /\ gc_out = NoConstants

\* split_max_quadratic did not return: not called, or panicked
NoSplit == [ok |-> FALSE, quadratic |-> <<>>, linear |-> <<>>, constant |-> F_ZERO]

\* the encoder did not return: not called, or panicked
NoOracle == [ok |-> FALSE, data |-> <<>>]

\* the oracle encoder is idle in the other specifications
OrcIdle ==
    /\ oracle_metadata = [register_values |-> <<>>, basic_proof_count |-> 0,
                          reduced_proof_count |-> 0,
                          reduced_log_23_proof_count |-> 0,
                          delegation_proof_count |-> <<>>,
                          prev_end_params_output |-> <<>>]
    /\ oracle_proofs = [basic_proofs |-> <<>>, reduced_proofs |-> <<>>,
                        reduced_log_23_proofs |-> <<>>, delegation_proofs |-> <<>>]
    /\ oracle_fn = "idle"
    /\ oracle_out = NoOracle

\* self.public_inputs == None
NoPublicInputs == [some |-> FALSE, written |-> FALSE, len |-> 0, values |-> <<>>]

\* stage one is idle in the other specifications
St1Idle ==
    /\ circuit_public_inputs = <<>>
    /\ st1_fails = "none"
    /\ st1_calls = 0
    /\ st1_result = "none"
    /\ public_inputs = NoPublicInputs
    /\ st1_callback = "none"

\* no thread calls initialize_concurrent_host_allocator in the other
\* specifications
CtxIdle ==
    /\ host_allocations_count = 0
    /\ ctx_pc = <<>>
    /\ ctx_allocations = <<>>
    /\ concurrent_host_allocator = 0
    /\ initialize_global_calls = 0

\* Box::new(None), not written, not dropped
NoTreeCaps ==
    [some |-> FALSE, writes |-> 0, assert_failed |-> FALSE, undefined |-> FALSE,
     dropped |-> FALSE]

\* no memory commitment runs in the other specifications
MemIdle ==
    /\ mem_data_device = "Main"
    /\ mem_fails = "none"
    /\ transfer_done = FALSE
    /\ mem_calls = <<>>
    /\ exec_stream = <<>>
    /\ exec_done = <<>>
    /\ mem_job = "none"
    /\ mem_callbacks = "none"
    /\ tree_caps = NoTreeCaps
    /\ mem_result = "none"

DevIdle == St1Idle /\ CtxIdle /\ MemIdle

MoreIdle == OrcIdle /\ DevIdle

ExtIdle == GcIdle /\ split_out = NoSplit /\ commuted_out = NoResult /\ MoreIdle

\* the planner is idle in the specifications of the algebra
RecIdle ==
    /\ strategy = "UseReducedLog23Machine"
    /\ proof_metadata = [basic_proof_count |-> 0, reduced_proof_count |-> 0,
                         reduced_log_23_proof_count |-> 0,
                         delegation_proof_count |-> <<>>]
    /\ proof_level = 0
    /\ rec_op = "idle"
    /\ rec_out = "none"

\* the worker is idle in the specifications of the algebra and the planner
WorkerIdle ==
    /\ mode = "TraceTouchedRam"
    /\ circuit_type = "RiscVCycles"
    /\ skip_set = {}
    /\ num_main_chunks_upper_bound = 0
    /\ split_count = 1
    /\ split_index = 0
    /\ free_allocator = 0
    /\ returned = 0
    /\ allocations = <<>>
    /\ results = <<>>
    /\ chunk_index = 0
    /\ chunks_traced_count = 0
    /\ end_reached = FALSE
    /\ cycles_executed = 0
    /\ next_chunk_index_with_no_setup_and_teardown = 0
    /\ touched_ram_cells_count = 0
    /\ index = 0
    /\ tracing_types = <<>>
    /\ delegation_chunks_counts = <<>>
    /\ requests = 0
    /\ pending = "none"
    /\ pc = "idle"
    /\ failure = "none"

\* the algebra is idle in the other specifications
AlgIdle ==
    /\ self_terms = <<>>
    /\ alg_in = <<>>
    /\ rhs_terms = <<>>
    /\ variable = Placeholder
    /\ alg_op = "idle"
    /\ alg_out = NoResult
    /\ alg_val = NoConstant

----------------------------------------------------------------------------
(* SpecNormalize: Constraint::normalize applied in place, once and twice *)

InitNormalize ==
    /\ self_terms \in TermLists(TermsUpTo(MaxTermDegree, InputCoeffs), MaxTerms)
    /\ alg_in = self_terms
    /\ rhs_terms = <<>>
    /\ variable = Placeholder
    /\ alg_op = "input"
    /\ alg_out = NoResult
    /\ alg_val = NoConstant
    /\ RecIdle
    /\ WorkerIdle
    /\ ExtIdle

\* first call of self.normalize()
Normalize ==
    /\ alg_op = "input"
    /\ LET r == Constraint_normalize(self_terms) IN
       /\ alg_out' = r
       /\ self_terms' = IF r.ok THEN r.terms ELSE self_terms
       /\ alg_op' = IF r.ok THEN "normalize" ELSE "panic"
    /\ UNCHANGED <<alg_in, rhs_terms, variable, alg_val, rec_vars, wrk_vars, ext_vars>>

\* second call of self.normalize() on the same object
NormalizeAgain ==
    /\ alg_op = "normalize"
    /\ LET r == Constraint_normalize(self_terms) IN
       /\ self_terms' = IF r.ok THEN r.terms ELSE self_terms
       /\ alg_op' = IF r.ok THEN "normalize_twice" ELSE "panic_twice"
    /\ UNCHANGED <<alg_in, rhs_terms, variable, alg_out, alg_val, rec_vars, wrk_vars, ext_vars>>

NextNormalize == Normalize \/ NormalizeAgain

SpecNormalize == InitNormalize /\ [][NextNormalize]_vars

----------------------------------------------------------------------------
(* SpecMul: C * D for operands built with or without normalization *)

OperandLists == TermLists(TermsUpTo(MaxOperandDegree, InputCoeffs), MaxOperandTerms)

InitMul ==
    /\ self_terms \in OperandLists
    /\ rhs_terms \in OperandLists
    /\ alg_in = self_terms
    /\ variable = Placeholder
    /\ alg_op = "input"
    /\ alg_out = NoResult
    /\ alg_val = NoConstant
    /\ RecIdle
    /\ WorkerIdle
    /\ ExtIdle

\* self * rhs
Mul ==
    /\ alg_op = "input"
    /\ alg_out' = Constraint_mul(self_terms, rhs_terms)
    /\ alg_op' = IF alg_out'.ok THEN "mul" ELSE "panic"
    /\ UNCHANGED <<self_terms, alg_in, rhs_terms, variable, alg_val, rec_vars, wrk_vars, ext_vars>>

NextMul == Mul

SpecMul == InitMul /\ [][NextMul]_vars

----------------------------------------------------------------------------
(* SpecSubstitute: E = C.express_variable(v), then                         *)
(* C.substitute_variable(v, E), then as_constant() of the result, for      *)
(* normalized constraints C                                                *)

NormalizedOperands ==
    {ts \in TermLists(TermsUpTo(MaxOperandDegree, InputCoeffsWide), MaxOperandTerms + 1) :
        Constraint_normalize(ts) = Ok(ts)}

InitSubstitute ==
    /\ self_terms \in NormalizedOperands
    /\ variable \in Variables
    /\ alg_in = self_terms
    /\ rhs_terms = <<>>
    /\ alg_op = "input"
    /\ alg_out = NoResult
    /\ alg_val = NoConstant
    /\ RecIdle
    /\ WorkerIdle
    /\ ExtIdle

\* E = self.express_variable(variable), kept in rhs_terms
ExpressVariable ==
    /\ alg_op = "input"
    /\ LET e == Constraint_express_variable(self_terms, variable) IN
       /\ rhs_terms' = e.terms
       /\ alg_op' = IF e.ok THEN "express_variable" ELSE "panic"
    /\ UNCHANGED <<self_terms, alg_in, variable, alg_out, alg_val, rec_vars, wrk_vars, ext_vars>>

\* self.substitute_variable(variable, E)
SubstituteVariable ==
    /\ alg_op = "express_variable"
    /\ alg_out' = Constraint_substitute_variable(self_terms, variable, rhs_terms)
    /\ alg_op' = IF alg_out'.ok THEN "substitute_variable" ELSE "panic"
    /\ UNCHANGED <<self_terms, alg_in, rhs_terms, variable, alg_val, rec_vars, wrk_vars, ext_vars>>

\* as_constant() of the substituted constraint
AsConstant ==
    /\ alg_op = "substitute_variable"
    /\ alg_val' = Constraint_as_constant(alg_out.terms)
    /\ alg_op' = IF alg_val' # NoConstant THEN "as_constant" ELSE "panic"
    /\ UNCHANGED <<self_terms, alg_in, rhs_terms, variable, alg_out, rec_vars, wrk_vars, ext_vars>>

NextSubstitute == ExpressVariable \/ SubstituteVariable \/ AsConstant

SpecSubstitute == InitSubstitute /\ [][NextSubstitute]_vars

----------------------------------------------------------------------------
(* SpecSubstituteLiteral: C = (p*v + q) * (r*w + s), then                  *)
(* C.substitute_variable(x, Constraint::constant(k))                       *)

\* Constraint::constant(fr)
Constraint_constant(fr) == <<Constant(fr)>>

\* Constraint::from(variable)
Constraint_from_variable(v) == <<Expression(F_ONE, <<v>>)>>

\* the constraint p*v + q, built as Constraint::from(v) scaled by p, plus the
\* constant q
LinearFactor(p, v, q) ==
    Constraint_add(Constraint_scale(Constraint_from_variable(v), p),
                   Constraint_constant(q)).terms

LinearFactors ==
    {LinearFactor(p, v, q) :
        p \in 1 .. MaxFactorCoeff, v \in Variables, q \in 0 .. MaxLiteral}

InitSubstituteLiteral ==
    /\ self_terms \in LinearFactors
    /\ rhs_terms \in LinearFactors
    /\ variable \in Variables
    /\ alg_val \in 0 .. MaxLiteral
    /\ alg_in = <<>>
    /\ alg_op = "input"
    /\ alg_out = NoResult
    /\ RecIdle
    /\ WorkerIdle
    /\ ExtIdle

\* C = self * rhs; the first factor is kept in alg_in
MulFactors ==
    /\ alg_op = "input"
    /\ LET c == Constraint_mul(self_terms, rhs_terms) IN
       /\ self_terms' = c.terms
       /\ alg_op' = IF c.ok THEN "mul" ELSE "panic"
    /\ alg_in' = self_terms
    /\ UNCHANGED <<rhs_terms, variable, alg_out, alg_val, rec_vars, wrk_vars, ext_vars>>

\* C.substitute_variable(variable, Constraint::constant(k))
SubstituteLiteral ==
    /\ alg_op = "mul"
    /\ alg_out' = Constraint_substitute_variable(self_terms, variable,
                                                 Constraint_constant(alg_val))
    /\ alg_op' = IF alg_out'.ok THEN "substitute_variable" ELSE "panic_substitute"
    /\ UNCHANGED <<self_terms, alg_in, rhs_terms, variable, alg_val, rec_vars, wrk_vars, ext_vars>>

NextSubstituteLiteral == MulFactors \/ SubstituteLiteral

SpecSubstituteLiteral == InitSubstituteLiteral /\ [][NextSubstituteLiteral]_vars

----------------------------------------------------------------------------
(* SpecSplit: Constraint::split_max_quadratic on constraints with terms of *)
(* degree 0 to TERM_INNER_CAPACITY, normalized or not                      *)

\* the loop of split_max_quadratic over the normalized terms
RECURSIVE SplitLoop(_, _, _)
SplitLoop(ts, acc, constant_used) ==
    IF ts = <<>> THEN acc
    ELSE LET term == Head(ts) IN
         CASE Term_degree(term) = 2 ->
                SplitLoop(Tail(ts),
                          [acc EXCEPT !.quadratic =
                              Append(@, <<term.coeff, term.inner[1], term.inner[2]>>)],
                          constant_used)
           [] Term_degree(term) = 1 ->
                SplitLoop(Tail(ts),
                          [acc EXCEPT !.linear = Append(@, <<term.coeff, term.inner[1]>>)],
                          constant_used)
           [] Term_degree(term) = 0 ->
                IF constant_used THEN NoSplit
                ELSE SplitLoop(Tail(ts),
                               [acc EXCEPT !.constant = Term_get_coef(term)], TRUE)
           [] OTHER -> NoSplit

\* Constraint::split_max_quadratic
split_max_quadratic(ts) ==
    LET normalized == Constraint_normalize(ts) IN
    IF ~normalized.ok THEN NoSplit
    ELSE SplitLoop(normalized.terms,
                   [ok |-> TRUE, quadratic |-> <<>>, linear |-> <<>>,
                    constant |-> F_ZERO],
                   FALSE)

InitSplit ==
    /\ self_terms \in TermLists(TermsUpTo(TERM_INNER_CAPACITY, InputCoeffs),
                                MaxSplitTerms)
    /\ alg_in = self_terms
    /\ rhs_terms = <<>>
    /\ variable = Placeholder
    /\ alg_op = "input"
    /\ alg_out = NoResult
    /\ alg_val = NoConstant
    /\ split_out = NoSplit
    /\ commuted_out = NoResult
    /\ GcIdle
    /\ MoreIdle
    /\ RecIdle
    /\ WorkerIdle

\* self.split_max_quadratic()
SplitMaxQuadratic ==
    /\ alg_op = "input"
    /\ split_out' = split_max_quadratic(self_terms)
    /\ alg_op' = IF split_out'.ok THEN "split_max_quadratic" ELSE "panic"
    /\ UNCHANGED <<self_terms, alg_in, rhs_terms, variable, alg_out, alg_val,
                   commuted_out, gc_vars, more_vars, rec_vars, wrk_vars>>

NextSplit == SplitMaxQuadratic

SpecSplit == InitSplit /\ [][NextSplit]_vars

----------------------------------------------------------------------------
(* SpecCommute: C + D with D + C, and C * D with D * C, for operands       *)
(* normalized or not                                                       *)

InitCommute ==
    /\ self_terms \in OperandLists
    /\ rhs_terms \in OperandLists
    /\ alg_in = self_terms
    /\ variable = Placeholder
    /\ alg_op = "input"
    /\ alg_out = NoResult
    /\ alg_val = NoConstant
    /\ commuted_out = NoResult
    /\ split_out = NoSplit
    /\ GcIdle
    /\ MoreIdle
    /\ RecIdle
    /\ WorkerIdle

\* self + rhs and rhs + self
AddBothWays ==
    /\ alg_op = "input"
    /\ alg_out' = Constraint_add(self_terms, rhs_terms)
    /\ commuted_out' = Constraint_add(rhs_terms, self_terms)
    /\ alg_op' = "add"
    /\ UNCHANGED <<self_terms, alg_in, rhs_terms, variable, alg_val,
                   split_out, gc_vars, more_vars, rec_vars, wrk_vars>>

\* self * rhs and rhs * self
MulBothWays ==
    /\ alg_op = "input"
    /\ alg_out' = Constraint_mul(self_terms, rhs_terms)
    /\ commuted_out' = Constraint_mul(rhs_terms, self_terms)
    /\ alg_op' = "mul"
    /\ UNCHANGED <<self_terms, alg_in, rhs_terms, variable, alg_val,
                   split_out, gc_vars, more_vars, rec_vars, wrk_vars>>

NextCommute == AddBothWays \/ MulBothWays

SpecCommute == InitCommute /\ [][NextCommute]_vars

----------------------------------------------------------------------------
(* Recursion strategy planner (execution_utils/src/recursion.rs) *)

RecursionStrategy ==
    {"UseReducedLog23Machine", "UseReducedLog23MachineMultiple",
     "UseReducedLog23MachineOnly"}

\* delegation type ids that key ProofMetadata.delegation_proof_count
DelegationCircuitType == {"BigIntWithControl", "Blake2WithCompression"}

\* .iter().any(|(_, x)| *x > bound) over the (type, count) pairs
AnyDelegationAbove(delegation_proof_count, bound) ==
    \E i \in 1 .. Len(delegation_proof_count) : delegation_proof_count[i][2] > bound

\* the same function without the `|| proof_level == 0` disjunct
finish_second_recursion_layer_ignores_level(s, metadata, level) ==
    IF s = "UseReducedLog23Machine"
    THEN IF level = 0 /\ metadata.reduced_log_23_proof_count = 1
         THEN "true" ELSE "panic"
    ELSE LET continue_second_layer ==
                 \/ metadata.reduced_log_23_proof_count > 1
                 \/ AnyDelegationAbove(metadata.delegation_proof_count, 1)
         IN IF continue_second_layer THEN "false" ELSE "true"

\* RecursionStrategy::finish_second_recursion_layer: "panic" when one of the
\* assertions of the single-repetition strategy fails
finish_second_recursion_layer(s, metadata, level) ==
    IF s = "UseReducedLog23Machine"
    THEN IF level = 0 /\ metadata.reduced_log_23_proof_count = 1
         THEN "true" ELSE "panic"
    ELSE LET continue_second_layer ==
                 \/ metadata.reduced_log_23_proof_count > 1
                 \/ AnyDelegationAbove(metadata.delegation_proof_count, 1)
                 \/ level = 0
         IN IF continue_second_layer THEN "false" ELSE "true"

\* RecursionStrategy::skip_first_layer
skip_first_layer(s) == s = "UseReducedLog23MachineOnly"

\* const N: usize = 5; const M: usize = 2;
N == 5
M == 2

\* the same function with >= in place of > in the thresholds
switch_to_second_recursion_layer_inclusive(s, metadata) ==
    LET continue_first_layer ==
            IF s = "UseReducedLog23Machine"
            THEN \/ metadata.reduced_proof_count >= 2
                 \/ AnyDelegationAbove(metadata.delegation_proof_count, 0)
            ELSE IF s = "UseReducedLog23MachineMultiple"
            THEN \/ metadata.reduced_proof_count >= N
                 \/ AnyDelegationAbove(metadata.delegation_proof_count, M - 1)
            ELSE FALSE
    IN ~continue_first_layer

\* RecursionStrategy::switch_to_second_recursion_layer
switch_to_second_recursion_layer(s, metadata) ==
    LET continue_first_layer ==
            IF s = "UseReducedLog23Machine"
            THEN \/ metadata.reduced_proof_count > 2
                 \/ AnyDelegationAbove(metadata.delegation_proof_count, 1)
            ELSE IF s = "UseReducedLog23MachineMultiple"
            THEN \/ metadata.reduced_proof_count > N
                 \/ AnyDelegationAbove(metadata.delegation_proof_count, M)
            ELSE FALSE
    IN ~continue_first_layer

\* (type, count) lists with distinct types, in any order
DelegationProofCounts ==
    {<<>>}
      \cup {<<(<<t, c>>)>> : t \in DelegationCircuitType, c \in 0 .. MaxProofCount}
      \cup {<<(<<t, c>>), (<<u, d>>)>> :
                t \in DelegationCircuitType, u \in DelegationCircuitType,
                c \in 0 .. MaxProofCount, d \in 0 .. MaxProofCount}

ProofMetadatas ==
    [basic_proof_count : {0},
     reduced_proof_count : 0 .. MaxReducedProofCount,
     reduced_log_23_proof_count : 0 .. MaxProofCount,
     delegation_proof_count : DelegationProofCounts]

(* SpecRecursion: the planner asks whether the second layer is finished *)

InitRecursion ==
    /\ strategy \in RecursionStrategy
    /\ proof_metadata \in ProofMetadatas
    /\ proof_level \in 0 .. MaxProofLevel
    /\ rec_op = "input"
    /\ rec_out = "none"
    /\ AlgIdle
    /\ WorkerIdle
    /\ ExtIdle

\* strategy.finish_second_recursion_layer(&proof_metadata, proof_level)
FinishSecondRecursionLayer ==
    /\ rec_op = "input"
    /\ rec_out' = finish_second_recursion_layer(strategy, proof_metadata, proof_level)
    /\ rec_op' = IF rec_out' = "panic" THEN "panic" ELSE "finish_second_recursion_layer"
    /\ UNCHANGED <<strategy, proof_metadata, proof_level, alg_vars, wrk_vars, ext_vars>>

\* strategy.skip_first_layer() and
\* strategy.switch_to_second_recursion_layer(&proof_metadata)
SwitchToSecondRecursionLayer ==
    /\ rec_op = "input"
    /\ rec_out' = <<skip_first_layer(strategy),
                    switch_to_second_recursion_layer(strategy, proof_metadata)>>
    /\ rec_op' = "switch_to_second_recursion_layer"
    /\ UNCHANGED <<strategy, proof_metadata, proof_level, alg_vars, wrk_vars, ext_vars>>

NextRecursion == FinishSecondRecursionLayer \/ SwitchToSecondRecursionLayer

SpecRecursion == InitRecursion /\ [][NextRecursion]_vars

(* SpecSecondLayer: a driver of the second recursion layer.  It starts at  *)
(* proof_level 0 with the metadata of the first iteration, asks the        *)
(* planner after every iteration and raises proof_level by one when the    *)
(* planner says to go on.                                                  *)

InitSecondLayer ==
    /\ strategy \in RecursionStrategy
    /\ proof_metadata \in ProofMetadatas
    /\ proof_level = 0
    /\ rec_op = "second_layer"
    /\ rec_out = "none"
    /\ AlgIdle
    /\ WorkerIdle
    /\ ExtIdle

\* one iteration of the second layer has produced proof_metadata; the
\* driver stops when the planner says so, else the next iteration runs
SecondLayerIteration ==
    /\ rec_op = "second_layer"
    /\ proof_level <= MaxProofLevel
    /\ rec_out' = finish_second_recursion_layer(strategy, proof_metadata, proof_level)
    /\ IF rec_out' = "false"
       THEN /\ proof_level' = proof_level + 1
            /\ proof_metadata' \in
                  {md \in ProofMetadatas :
                      /\ md.reduced_proof_count = proof_metadata.reduced_proof_count
                      /\ md.reduced_log_23_proof_count >= 1}
            /\ UNCHANGED rec_op
       ELSE /\ rec_op' = IF rec_out' = "true" THEN "finished" ELSE "panic"
            /\ UNCHANGED <<proof_metadata, proof_level>>
    /\ UNCHANGED <<strategy, alg_vars, wrk_vars, ext_vars>>

NextSecondLayer == SecondLayerIteration

SpecSecondLayer == InitSecondLayer /\ [][NextSecondLayer]_vars

----------------------------------------------------------------------------
(* generate_constants_for_binary, in execution_utils and in the command    *)
(* line tool                                                               *)

\* the strategies of execution_utils (RecursionStrategy, defined above) and
\* of the command line tool, which has one more
CliRecursionStrategy == RecursionStrategy \cup {"UseFinalMachine"}

UNIVERSAL_CIRCUIT_VERIFIER == VerifierBinary("UNIVERSAL_CIRCUIT_VERIFIER")
UNIVERSAL_CIRCUIT_NO_DELEGATION_VERIFIER ==
    VerifierBinary("UNIVERSAL_CIRCUIT_NO_DELEGATION_VERIFIER")
BASE_LAYER_VERIFIER == VerifierBinary("BASE_LAYER_VERIFIER")
RECURSION_LAYER_VERIFIER == VerifierBinary("RECURSION_LAYER_VERIFIER")
RECURSION_LAYER_NO_DELEGATION_VERIFIER ==
    VerifierBinary("RECURSION_LAYER_NO_DELEGATION_VERIFIER")
FINAL_RECURSION_LAYER_VERIFIER == VerifierBinary("FINAL_RECURSION_LAYER_VERIFIER")

universal_circuit_verifier_vk == VerifierKeyParams("universal_circuit_verifier")
universal_circuit_log_23_verifier_vk ==
    VerifierKeyParams("universal_circuit_log_23_verifier")
universal_circuit_no_delegation_verifier_vk ==
    VerifierKeyParams("universal_circuit_no_delegation_verifier")
base_layer_verifier_vk == VerifierKeyParams("base_layer_verifier")
recursion_layer_verifier_vk == VerifierKeyParams("recursion_layer_verifier")
recursion_log_23_layer_verifier_vk ==
    VerifierKeyParams("recursion_log_23_layer_verifier")
recursion_layer_no_delegation_verifier_vk ==
    VerifierKeyParams("recursion_layer_no_delegation_verifier")
final_recursion_layer_verifier_vk ==
    VerifierKeyParams("final_recursion_layer_verifier")

\* universal_verifier && recompute, execution_utils
universal_recompute(base_layer_bin_, mode_) ==
    CASE mode_ = "UseReducedLog23Machine" ->
            generate_params_and_register_values(
                << <<base_layer_bin_, "Standard">>,
                   <<UNIVERSAL_CIRCUIT_VERIFIER, "Reduced">> >>,
                <<UNIVERSAL_CIRCUIT_VERIFIER, "ReducedLog23">>)
      [] mode_ = "UseReducedLog23MachineMultiple" ->
            generate_params_and_register_values(
                << <<base_layer_bin_, "Standard">>,
                   <<UNIVERSAL_CIRCUIT_VERIFIER, "Reduced">>,
                   <<UNIVERSAL_CIRCUIT_VERIFIER, "ReducedLog23">> >>,
                <<UNIVERSAL_CIRCUIT_VERIFIER, "ReducedLog23">>)
      [] mode_ = "UseReducedLog23MachineOnly" ->
            generate_params_and_register_values(
                << <<base_layer_bin_, "Standard">>,
                   <<UNIVERSAL_CIRCUIT_VERIFIER, "ReducedLog23">> >>,
                <<UNIVERSAL_CIRCUIT_VERIFIER, "ReducedLog23">>)

\* universal_verifier && recompute, command line tool
cli_universal_recompute(base_layer_bin_, mode_) ==
    CASE mode_ = "UseFinalMachine" ->
            generate_params_and_register_values(
                << <<base_layer_bin_, "Standard">>,
                   <<UNIVERSAL_CIRCUIT_VERIFIER, "Reduced">>,
                   <<UNIVERSAL_CIRCUIT_NO_DELEGATION_VERIFIER, "ReducedFinal">> >>,
                <<UNIVERSAL_CIRCUIT_NO_DELEGATION_VERIFIER, "ReducedFinal">>)
      [] mode_ = "UseReducedLog23Machine" ->
            generate_params_and_register_values(
                << <<base_layer_bin_, "Standard">>,
                   <<UNIVERSAL_CIRCUIT_VERIFIER, "Reduced">> >>,
                <<UNIVERSAL_CIRCUIT_VERIFIER, "ReducedLog23">>)
      [] mode_ = "UseReducedLog23MachineMultiple" ->
            generate_params_and_register_values(
                << <<base_layer_bin_, "Standard">>,
                   <<UNIVERSAL_CIRCUIT_VERIFIER, "Reduced">>,
                   <<UNIVERSAL_CIRCUIT_VERIFIER, "ReducedLog23">> >>,
                <<UNIVERSAL_CIRCUIT_VERIFIER, "ReducedLog23">>)
      [] mode_ = "UseReducedLog23MachineOnly" ->
            generate_params_and_register_values(
                << <<base_layer_bin_, "Standard">>,
                   <<UNIVERSAL_CIRCUIT_VERIFIER, "ReducedLog23">> >>,
                <<UNIVERSAL_CIRCUIT_VERIFIER, "ReducedLog23">>)

\* the cached chain of the first strategy, used for every strategy
universal_cached_one_chain(base_layer_bin_, mode_) ==
    Constants(universal_circuit_log_23_verifier_vk,
              compute_chain_encoding(
                  <<ZeroDigest,
                    generate_params_for_binary(base_layer_bin_, "Standard"),
                    universal_circuit_verifier_vk>>))

\* universal_verifier && !recompute, execution_utils
universal_cached(base_layer_bin_, mode_) ==
    LET base_params == generate_params_for_binary(base_layer_bin_, "Standard")
    IN  CASE mode_ = "UseReducedLog23Machine" ->
                Constants(universal_circuit_log_23_verifier_vk,
                          compute_chain_encoding(
                              <<ZeroDigest, base_params,
                                universal_circuit_verifier_vk>>))
          [] mode_ = "UseReducedLog23MachineMultiple" ->
                Constants(universal_circuit_log_23_verifier_vk,
                          compute_chain_encoding(
                              <<ZeroDigest, base_params,
                                universal_circuit_verifier_vk,
                                universal_circuit_log_23_verifier_vk>>))
          [] mode_ = "UseReducedLog23MachineOnly" ->
                Constants(universal_circuit_log_23_verifier_vk,
                          compute_chain_encoding(
                              <<ZeroDigest, base_params,
                                universal_circuit_log_23_verifier_vk>>))

\* universal_verifier && !recompute, command line tool
cli_universal_cached(base_layer_bin_, mode_) ==
    LET base_params == generate_params_for_binary(base_layer_bin_, "Standard")
    IN  CASE mode_ = "UseFinalMachine" ->
                Constants(universal_circuit_no_delegation_verifier_vk,
                          compute_chain_encoding(
                              <<ZeroDigest, base_params,
                                universal_circuit_verifier_vk,
                                universal_circuit_no_delegation_verifier_vk>>))
          [] mode_ = "UseReducedLog23Machine" ->
                Constants(universal_circuit_log_23_verifier_vk,
                          compute_chain_encoding(
                              <<ZeroDigest, base_params,
                                universal_circuit_verifier_vk>>))
          [] mode_ = "UseReducedLog23MachineMultiple" ->
                Constants(universal_circuit_log_23_verifier_vk,
                          compute_chain_encoding(
                              <<ZeroDigest, base_params,
                                universal_circuit_verifier_vk,
                                universal_circuit_log_23_verifier_vk>>))
          [] mode_ = "UseReducedLog23MachineOnly" ->
                Constants(universal_circuit_log_23_verifier_vk,
                          compute_chain_encoding(
                              <<ZeroDigest, base_params,
                                universal_circuit_log_23_verifier_vk>>))

\* !universal_verifier && recompute, execution_utils
non_universal_recompute(base_layer_bin_, mode_) ==
    CASE mode_ = "UseReducedLog23Machine" ->
            generate_params_and_register_values(
                << <<base_layer_bin_, "Standard">>,
                   <<BASE_LAYER_VERIFIER, "Reduced">>,
                   <<RECURSION_LAYER_VERIFIER, "Reduced">> >>,
                <<RECURSION_LAYER_VERIFIER, "ReducedLog23">>)
      [] OTHER -> NoConstants

\* !universal_verifier && !recompute, execution_utils
non_universal_cached(base_layer_bin_, mode_) ==
    LET base_params == generate_params_for_binary(base_layer_bin_, "Standard")
    IN  CASE mode_ = "UseReducedLog23Machine" ->
                Constants(recursion_log_23_layer_verifier_vk,
                          compute_chain_encoding(
                              <<ZeroDigest, base_params,
                                recursion_layer_verifier_vk,
                                recursion_log_23_layer_verifier_vk>>))
          [] OTHER -> NoConstants

\* !universal_verifier && recompute, command line tool
cli_non_universal_recompute(base_layer_bin_, mode_) ==
    CASE mode_ = "UseFinalMachine" ->
            generate_params_and_register_values(
                << <<base_layer_bin_, "Standard">>,
                   <<BASE_LAYER_VERIFIER, "Reduced">>,
                   <<RECURSION_LAYER_VERIFIER, "Reduced">>,
                   <<RECURSION_LAYER_NO_DELEGATION_VERIFIER, "ReducedFinal">> >>,
                <<FINAL_RECURSION_LAYER_VERIFIER, "ReducedFinal">>)
      [] mode_ = "UseReducedLog23Machine" ->
            generate_params_and_register_values(
                << <<base_layer_bin_, "Standard">>,
                   <<BASE_LAYER_VERIFIER, "Reduced">>,
                   <<RECURSION_LAYER_VERIFIER, "Reduced">> >>,
                <<RECURSION_LAYER_VERIFIER, "ReducedLog23">>)
      [] OTHER -> NoConstants

\* !universal_verifier && !recompute, command line tool
cli_non_universal_cached(base_layer_bin_, mode_) ==
    LET base_params == generate_params_for_binary(base_layer_bin_, "Standard")
    IN  CASE mode_ = "UseFinalMachine" ->
                Constants(final_recursion_layer_verifier_vk,
                          compute_chain_encoding(
                              <<ZeroDigest, base_params,
                                base_layer_verifier_vk,
                                recursion_layer_verifier_vk,
                                recursion_layer_no_delegation_verifier_vk>>))
          [] mode_ = "UseReducedLog23Machine" ->
                Constants(recursion_log_23_layer_verifier_vk,
                          compute_chain_encoding(
                              <<ZeroDigest, base_params,
                                recursion_layer_verifier_vk,
                                recursion_log_23_layer_verifier_vk>>))
          [] OTHER -> NoConstants

\* execution_utils::generate_constants_for_binary
generate_constants_for_binary(base_layer_bin_, mode_, universal_, recompute_) ==
    IF universal_
    THEN IF recompute_
         THEN universal_recompute(base_layer_bin_, mode_)
         ELSE universal_cached(base_layer_bin_, mode_)
    ELSE IF recompute_
         THEN non_universal_recompute(base_layer_bin_, mode_)
         ELSE non_universal_cached(base_layer_bin_, mode_)

\* cli::generate_constants::generate_constants_for_binary; the pair it prints
cli_generate_constants_for_binary(base_layer_bin_, mode_, universal_, recompute_) ==
    IF universal_
    THEN IF recompute_
         THEN cli_universal_recompute(base_layer_bin_, mode_)
         ELSE cli_universal_cached(base_layer_bin_, mode_)
    ELSE IF recompute_
         THEN cli_non_universal_recompute(base_layer_bin_, mode_)
         ELSE cli_non_universal_cached(base_layer_bin_, mode_)

----------------------------------------------------------------------------
(* SpecConstants: one call of generate_constants_for_binary, of            *)
(* execution_utils or of the command line tool                             *)

InitConstants ==
    /\ gc_fn = "idle"
    /\ recursion_mode \in CliRecursionStrategy
    /\ universal_verifier \in BOOLEAN
    /\ recompute \in BOOLEAN
    /\ base_layer_bin \in {BaseLayerBinary(n) : n \in 1 .. NumBinaries}
    /\ gc_out = NoConstants
    /\ split_out = NoSplit
    /\ commuted_out = NoResult
    /\ MoreIdle
    /\ AlgIdle
    /\ RecIdle
    /\ WorkerIdle

\* execution_utils::generate_constants_for_binary
GenerateConstants ==
    /\ gc_fn = "idle"
    /\ recursion_mode \in RecursionStrategy
    /\ gc_fn' = "execution_utils"
    /\ gc_out' = generate_constants_for_binary(base_layer_bin, recursion_mode,
                                               universal_verifier, recompute)
    /\ UNCHANGED <<recursion_mode, universal_verifier, recompute, base_layer_bin,
                   split_out, commuted_out, more_vars, alg_vars, rec_vars, wrk_vars>>

\* cli::generate_constants::generate_constants_for_binary
GenerateConstantsCli ==
    /\ gc_fn = "idle"
    /\ gc_fn' = "cli"
    /\ gc_out' = cli_generate_constants_for_binary(base_layer_bin, recursion_mode,
                                                   universal_verifier, recompute)
    /\ UNCHANGED <<recursion_mode, universal_verifier, recompute, base_layer_bin,
                   split_out, commuted_out, more_vars, alg_vars, rec_vars, wrk_vars>>

NextConstants == GenerateConstants \/ GenerateConstantsCli

SpecConstants == InitConstants /\ [][NextConstants]_vars

----------------------------------------------------------------------------
(* Verifier oracle encoder (execution_utils/src/verifiers.rs) *)

\* VerifierCircuitsIdentifiers, the prefix word of the universal verifier
BaseLayer == 0
RecursionLayer == 1
RiscV == 3
CombinedRecursionLayers == 4
RecursionLog23Layer == 5
CombinedMultipleRecursionLayers == 6
VerifierCircuitsIdentifiers ==
    {BaseLayer, RecursionLayer, RiscV, CombinedRecursionLayers,
     RecursionLog23Layer, CombinedMultipleRecursionLayers}

\* metadata.register_values.len() the encoder insists on
NumRegisters == 32

\* delegation CSR numbers: the two delegation circuits and a CSR that is no
\* delegation circuit of any machine
Blake2DelegationCsr == 1991
BigIntDelegationCsr == 1994
UnknownCsr == 3072
DelegationCsrs == {Blake2DelegationCsr, BigIntDelegationCsr, UnknownCsr}

\* IMStandardIsaConfig::ALLOWED_DELEGATION_CSRS.to_vec()
full_machine_allowed_delegation_types == <<Blake2DelegationCsr, BigIntDelegationCsr>>

\* IWithoutByteAccessIsaConfigWithDelegation::ALLOWED_DELEGATION_CSRS.to_vec()
reduced_machine_allowed_delegation_types == <<Blake2DelegationCsr>>

\* split_timestamp: the low TimestampColumnsNumBits bits and the rest
TimestampColumnsNumBits == 19
split_timestamp(ts) ==
    <<ts % (2 ^ TimestampColumnsNumBits), ts \div (2 ^ TimestampColumnsNumBits)>>

\* A proof is named by the list that holds it, the delegation type of the
\* list (0 for the main lists), its index in the list and its number of
\* queries; the words a flattener yields for it are kept as one symbolic item.
Proof(list, key, i, n) == [list |-> list, key |-> key, index |-> i, queries |-> n]
NoProof == Proof("none", 0, 0, 0)

\* one u32 word of the stream
Word(v) == [kind |-> "word", value |-> v, proof |-> NoProof]

\* proof_flattener::flatten_proof_for_skeleton(&proof, shuffle_ram_inits)
flatten_proof_for_skeleton(proof, shuffle) ==
    <<[kind |-> "skeleton", value |-> IF shuffle THEN 1 ELSE 0, proof |-> proof]>>

\* proof_flattener::flatten_query(query), query the q-th of the proof
flatten_query(proof, q) == <<[kind |-> "query", value |-> q, proof |-> proof]>>

RECURSIVE FlattenQueries(_, _)
\* for query in proof.queries.iter() { oracle_data.extend(flatten_query(query)) },
\* from query q on
FlattenQueries(proof, q) ==
    IF q > proof.queries THEN <<>>
    ELSE flatten_query(proof, q) \o FlattenQueries(proof, q + 1)

\* the skeleton of a proof followed by each of its queries
FlattenProof(proof, shuffle) ==
    flatten_proof_for_skeleton(proof, shuffle) \o FlattenQueries(proof, 1)

RECURSIVE FlattenMainProofs(_, _, _)
\* for i in 0..count { let proof = &list[i]; .. }, from the i-th proof on;
\* the index is checked by the caller
FlattenMainProofs(list, i, count) ==
    IF i > count THEN <<>>
    ELSE FlattenProof(list[i], TRUE) \o FlattenMainProofs(list, i + 1, count)

RECURSIVE FlattenRegisters(_, _)
\* for register in metadata.register_values.iter() { value, low, high }
FlattenRegisters(register_values, i) ==
    IF i > Len(register_values) THEN <<>>
    ELSE LET register == register_values[i]
             ts == split_timestamp(register.last_access_timestamp)
         IN <<Word(register.value), Word(ts[1]), Word(ts[2])>>
                \o FlattenRegisters(register_values, i + 1)

\* delegations.contains(k)
Contains(delegations, k) == \E i \in 1 .. Len(delegations) : delegations[i] = k

\* proofs.delegation_proofs.iter().find(|(k, _)| k == delegation_type)
\*     .map(|(_, v)| v).unwrap_or(&empty)
FindDelegationProofs(delegation_proofs, delegation_type) ==
    LET hits == {i \in 1 .. Len(delegation_proofs) :
                     delegation_proofs[i][1] = delegation_type}
    IN IF hits = {} THEN <<>>
       ELSE delegation_proofs[CHOOSE i \in hits : \A j \in hits : i <= j][2]

RECURSIVE FlattenDelegationProofList(_, _)
\* for proof in delegation_proofs { skeleton without shuffle, queries }
FlattenDelegationProofList(delegation_proofs, i) ==
    IF i > Len(delegation_proofs) THEN <<>>
    ELSE FlattenProof(delegation_proofs[i], FALSE)
             \o FlattenDelegationProofList(delegation_proofs, i + 1)

\* the same loop leaving out the types that have no proofs
RECURSIVE FlattenDelegations_skips_empty(_, _, _)
FlattenDelegations_skips_empty(delegations, proofs, d) ==
    IF d > Len(delegations) THEN <<>>
    ELSE LET delegation_proofs ==
                 FindDelegationProofs(proofs.delegation_proofs, delegations[d])
         IN (IF delegation_proofs = <<>> THEN <<>>
             ELSE <<Word(Len(delegation_proofs))>>
                      \o FlattenDelegationProofList(delegation_proofs, 1))
                \o FlattenDelegations_skips_empty(delegations, proofs, d + 1)

RECURSIVE FlattenDelegations(_, _, _)
\* for delegation_type in &delegations { count word, proofs }, from the d-th
\* allowed type on
FlattenDelegations(delegations, proofs, d) ==
    IF d > Len(delegations) THEN <<>>
    ELSE LET delegation_proofs ==
                 FindDelegationProofs(proofs.delegation_proofs, delegations[d])
         IN <<Word(Len(delegation_proofs))>>
                \o FlattenDelegationProofList(delegation_proofs, 1)
                \o FlattenDelegations(delegations, proofs, d + 1)

\* the main-layer branch the encoder takes: which count and list it reads and
\* which allowed set it returns
MainBranch(metadata, proofs) ==
    IF metadata.basic_proof_count > 0
    THEN [ok |-> metadata.reduced_proof_count = 0,
          count |-> metadata.basic_proof_count,
          list |-> proofs.basic_proofs,
          delegations |-> full_machine_allowed_delegation_types]
    ELSE IF metadata.reduced_proof_count > 0
    THEN [ok |-> TRUE,
          count |-> metadata.reduced_proof_count,
          list |-> proofs.reduced_proofs,
          delegations |-> reduced_machine_allowed_delegation_types]
    ELSE IF metadata.reduced_log_23_proof_count > 0
    THEN [ok |-> TRUE,
          count |-> metadata.reduced_log_23_proof_count,
          list |-> proofs.reduced_log_23_proofs,
          delegations |-> reduced_machine_allowed_delegation_types]
    ELSE [ok |-> FALSE, count |-> 0, list |-> <<>>, delegations |-> <<>>]

\* generate_oracle_data_from_metadata_and_proof_list: NoOracle when an
\* assertion, an index or the "No proofs" arm panics
generate_oracle_data_from_metadata_and_proof_list(metadata, proofs) ==
    LET branch == MainBranch(metadata, proofs)
    IN IF NumRegisters # Len(metadata.register_values) THEN NoOracle
       ELSE IF ~branch.ok THEN NoOracle
       ELSE IF branch.count > Len(branch.list) THEN NoOracle
       ELSE IF \E i \in 1 .. Len(metadata.delegation_proof_count) :
                   ~Contains(branch.delegations, metadata.delegation_proof_count[i][1])
       THEN NoOracle
       ELSE [ok |-> TRUE,
             data |-> FlattenRegisters(metadata.register_values, 1)
                         \o <<Word(branch.count)>>
                         \o FlattenMainProofs(branch.list, 1, branch.count)
                         \o FlattenDelegations(branch.delegations, proofs, 1)
                         \o [i \in 1 .. Len(metadata.prev_end_params_output) |->
                                Word(metadata.prev_end_params_output[i])]]

\* the prefix chosen with the log-23 count looked at before the reduced one
generate_oracle_data_for_universal_verifier_log_23_first(metadata, proofs) ==
    LET oracle == generate_oracle_data_from_metadata_and_proof_list(metadata, proofs)
    IN IF ~oracle.ok THEN NoOracle
       ELSE IF metadata.basic_proof_count > 0
       THEN [ok |-> TRUE, data |-> <<Word(BaseLayer)>> \o oracle.data]
       ELSE IF metadata.reduced_log_23_proof_count > 0
       THEN [ok |-> TRUE, data |-> <<Word(RecursionLog23Layer)>> \o oracle.data]
       ELSE IF metadata.reduced_proof_count > 0
       THEN [ok |-> TRUE, data |-> <<Word(RecursionLayer)>> \o oracle.data]
       ELSE NoOracle

\* generate_oracle_data_for_universal_verifier
generate_oracle_data_for_universal_verifier(metadata, proofs) ==
    LET oracle == generate_oracle_data_from_metadata_and_proof_list(metadata, proofs)
    IN IF ~oracle.ok THEN NoOracle
       ELSE IF metadata.basic_proof_count > 0
       THEN [ok |-> TRUE, data |-> <<Word(BaseLayer)>> \o oracle.data]
       ELSE IF metadata.reduced_proof_count > 0
       THEN [ok |-> TRUE, data |-> <<Word(RecursionLayer)>> \o oracle.data]
       ELSE IF metadata.reduced_log_23_proof_count > 0
       THEN [ok |-> TRUE, data |-> <<Word(RecursionLog23Layer)>> \o oracle.data]
       ELSE NoOracle

(* SpecOracle: one call of the encoder on a metadata and a proof list *)

\* the register file of a finished run: register i holds RegisterValue(i),
\* last written at RegisterTimestamp(i)
RegisterValue(i) == 100 + i
RegisterTimestamp(i) == i * (2 ^ TimestampColumnsNumBits) + 4 * i + 3
RegisterValues ==
    [i \in 1 .. NumRegisters |->
        [value |-> RegisterValue(i), last_access_timestamp |-> RegisterTimestamp(i)]]

\* prev_end_params_output: None, or Some of 8 words
PrevEndParams == [i \in 1 .. 8 |-> 900 + i]

\* Vec<(u32, _)> of up to MaxDelegationEntries entries with distinct keys
DelegationEntries(values) ==
    UNION {{e \in [1 .. n -> DelegationCsrs \X values] :
                \A i, j \in 1 .. n : i # j => e[i][1] # e[j][1]} :
           n \in 0 .. MaxDelegationEntries}

\* a list of n proofs, proof i with 1 or 2 queries
ProofsOf(list, key, n) == [i \in 1 .. n |-> Proof(list, key, i, 1 + (i % 2))]

OracleMetadatas ==
    [register_values : {RegisterValues},
     basic_proof_count : 0 .. MaxMainProofs,
     reduced_proof_count : 0 .. MaxMainProofs,
     reduced_log_23_proof_count : 0 .. MaxMainProofs,
     delegation_proof_count : DelegationEntries(0 .. MaxDelegationProofs),
     prev_end_params_output : {<<>>, PrevEndParams}]

OracleProofLists ==
    {[basic_proofs |-> ProofsOf("basic_proofs", 0, b),
      reduced_proofs |-> ProofsOf("reduced_proofs", 0, r),
      reduced_log_23_proofs |-> ProofsOf("reduced_log_23_proofs", 0, l),
      delegation_proofs |->
          [i \in 1 .. Len(d) |-> <<d[i][1], ProofsOf("delegation_proofs", d[i][1], d[i][2])>>]] :
        b \in 0 .. MaxMainProofs, r \in 0 .. MaxMainProofs, l \in 0 .. MaxMainProofs,
        d \in DelegationEntries(0 .. MaxDelegationProofs)}

InitOracle ==
    /\ oracle_metadata \in OracleMetadatas
    /\ oracle_proofs \in OracleProofLists
    /\ oracle_fn = "idle"
    /\ oracle_out = NoOracle
    /\ DevIdle
    /\ GcIdle
    /\ split_out = NoSplit
    /\ commuted_out = NoResult
    /\ AlgIdle
    /\ RecIdle
    /\ WorkerIdle

\* generate_oracle_data_for_universal_verifier(&metadata, &proofs)
GenerateOracleForUniversalVerifier ==
    /\ oracle_fn = "idle"
    /\ oracle_fn' = "generate_oracle_data_for_universal_verifier"
    /\ oracle_out' = generate_oracle_data_for_universal_verifier(oracle_metadata,
                                                                  oracle_proofs)
    /\ UNCHANGED <<oracle_metadata, oracle_proofs, dev_vars, gc_vars, split_out,
                   commuted_out, alg_vars, rec_vars, wrk_vars>>

\* generate_oracle_data_from_metadata_and_proof_list(&metadata, &proofs)
GenerateOracleFromMetadata ==
    /\ oracle_fn = "idle"
    /\ oracle_fn' = "generate_oracle_data_from_metadata_and_proof_list"
    /\ oracle_out' = generate_oracle_data_from_metadata_and_proof_list(oracle_metadata,
                                                                        oracle_proofs)
    /\ UNCHANGED <<oracle_metadata, oracle_proofs, dev_vars, gc_vars, split_out,
                   commuted_out, alg_vars, rec_vars, wrk_vars>>

NextOracle == GenerateOracleForUniversalVerifier \/ GenerateOracleFromMetadata

SpecOracle == InitOracle /\ [][NextOracle]_vars

----------------------------------------------------------------------------
(* Stage-1 public inputs (gpu_prover/src/prover/stage_1.rs) *)

\* BoundaryConstraintLocation
BoundaryConstraintLocation == {"FirstRow", "OneBeforeLastRow", "LastRow"}

\* circuit.public_inputs: (location, column_address) pairs
CircuitPublicInputs ==
    UNION {[1 .. n -> BoundaryConstraintLocation \X (1 .. NumWitnessColumns)] :
           n \in 0 .. MaxPublicInputs}

\* the witness rows the two asynchronous copies bring to the host
WitnessFirstRow == [c \in 1 .. NumWitnessColumns |-> 10 + c]
WitnessOneBeforeLastRow == [c \in 1 .. NumWitnessColumns |-> 20 + c]

\* words a released host block may hold when another allocation reused it
StaleWords == 0 .. MaxStaleWord

\* h_witness_first_row and h_witness_one_before_last_row are locals of
\* produce_public_inputs, released when it returns; the copies and the
\* closure run later and reach them through the accessors' raw pointers.
\* What the closure finds in the block of a row: per column the word the
\* copy brought, or a word of whoever owns the block by then
ReleasedRowContents(witness_row) ==
    [c \in 1 .. NumWitnessColumns |-> {witness_row[c]} \cup StaleWords]

ReleasedRows(witness_row) ==
    {r \in [1 .. NumWitnessColumns -> UNION {ReleasedRowContents(witness_row)[c] :
                                               c \in 1 .. NumWitnessColumns}] :
        \A c \in 1 .. NumWitnessColumns : r[c] \in ReleasedRowContents(witness_row)[c]}

\* read_value(column_address, witness_row, &[])
read_value(column_address, witness_row) == witness_row[column_address]

\* context.alloc_host_uninit_slice(len): a host slice nothing was written to
UninitSlice(len) == [some |-> TRUE, written |-> FALSE, len |-> len, values |-> <<>>]

\* values pushed for the entries of one location, in the order of the circuit
RECURSIVE RowPublicInputs(_, _, _, _)
RowPublicInputs(entries, location, witness_row, i) ==
    IF i > Len(entries) THEN <<>>
    ELSE (IF entries[i][1] = location
          THEN <<read_value(entries[i][2], witness_row)>> ELSE <<>>)
             \o RowPublicInputs(entries, location, witness_row, i + 1)

\* the closure reaches panic!("public inputs on the last row are not supported")
ClosurePanics(entries) == \E i \in 1 .. Len(entries) : entries[i][1] = "LastRow"

\* the closure scheduled by produce_public_inputs, run to its end on the
\* rows it finds behind the two accessors:
\* iter.set_from(first_row_public_inputs);
\* iter.set_from(one_before_last_row_public_inputs)
ClosureWrites(entries, slice, witness_first_row, witness_one_before_last_row) ==
    [slice EXCEPT !.written = TRUE,
                  !.values = RowPublicInputs(entries, "FirstRow", witness_first_row, 1)
                      \o RowPublicInputs(entries, "OneBeforeLastRow",
                                         witness_one_before_last_row, 1)]

\* produce_public_inputs: the result, self.public_inputs and the closure on
\* the stream after the call
produce_public_inputs(entries, stored, callback, fails) ==
    IF stored.some
    THEN [result |-> "Ok", public_inputs |-> stored, callback |-> callback]
    ELSE IF entries = <<>>
    THEN [result |-> "Ok", public_inputs |-> [UninitSlice(0) EXCEPT !.written = TRUE],
          callback |-> callback]
    ELSE IF fails = "alloc"
    THEN [result |-> "Err", public_inputs |-> stored, callback |-> callback]
    ELSE [result |-> "Ok", public_inputs |-> UninitSlice(Len(entries)),
          callback |-> "scheduled"]

\* commit_witness: the two commitments, then produce_public_inputs
commit_witness(entries, stored, callback, fails) ==
    IF fails = "commit"
    THEN [result |-> "Err", public_inputs |-> stored, callback |-> callback]
    ELSE produce_public_inputs(entries, stored, callback, fails)

(* SpecStageOne: calls on one StageOneOutput and the exec stream's callback *)

InitStageOne ==
    /\ circuit_public_inputs \in CircuitPublicInputs
    /\ st1_fails \in {"none", "commit", "alloc"}
    /\ st1_calls = 0
    /\ st1_result = "none"
    /\ public_inputs = NoPublicInputs
    /\ st1_callback = "none"
    /\ CtxIdle
    /\ MemIdle
    /\ OrcIdle
    /\ GcIdle
    /\ split_out = NoSplit
    /\ commuted_out = NoResult
    /\ AlgIdle
    /\ RecIdle
    /\ WorkerIdle

\* output.produce_public_inputs(circuit, callbacks, context)
ProducePublicInputs ==
    /\ st1_calls < MaxStageOneCalls
    /\ st1_result # "panic"
    /\ LET out == produce_public_inputs(circuit_public_inputs, public_inputs,
                                        st1_callback, st1_fails)
       IN  /\ st1_result' = out.result
           /\ public_inputs' = out.public_inputs
           /\ st1_callback' = out.callback
    /\ st1_calls' = st1_calls + 1
    /\ UNCHANGED <<circuit_public_inputs, st1_fails, ctx_vars, mem_vars, orc_vars,
                   gc_vars, split_out, commuted_out, alg_vars, rec_vars, wrk_vars>>

\* output.commit_witness(circuit, callbacks, context)
CommitWitness ==
    /\ st1_calls < MaxStageOneCalls
    /\ st1_result # "panic"
    /\ LET out == commit_witness(circuit_public_inputs, public_inputs,
                                 st1_callback, st1_fails)
       IN  /\ st1_result' = out.result
           /\ public_inputs' = out.public_inputs
           /\ st1_callback' = out.callback
    /\ st1_calls' = st1_calls + 1
    /\ UNCHANGED <<circuit_public_inputs, st1_fails, ctx_vars, mem_vars, orc_vars,
                   gc_vars, split_out, commuted_out, alg_vars, rec_vars, wrk_vars>>

\* the exec stream reaches the scheduled closure and runs it on the host;
\* the two row buffers were released when produce_public_inputs returned
RunPublicInputsClosure ==
    /\ st1_callback = "scheduled"
    /\ IF ClosurePanics(circuit_public_inputs)
       THEN /\ st1_callback' = "panicked"
            /\ UNCHANGED public_inputs
       ELSE /\ st1_callback' = "done"
            /\ \E witness_first_row \in ReleasedRows(WitnessFirstRow),
                  witness_one_before_last_row \in ReleasedRows(WitnessOneBeforeLastRow) :
                  public_inputs' = ClosureWrites(circuit_public_inputs, public_inputs,
                                                 witness_first_row,
                                                 witness_one_before_last_row)
    /\ UNCHANGED <<circuit_public_inputs, st1_fails, st1_calls, st1_result, ctx_vars,
                   mem_vars, orc_vars, gc_vars, split_out, commuted_out, alg_vars,
                   rec_vars, wrk_vars>>

NextStageOne == ProducePublicInputs \/ CommitWitness \/ RunPublicInputsClosure

SpecStageOne == InitStageOne /\ [][NextStageOne]_vars

----------------------------------------------------------------------------
(* Concurrent host allocator (gpu_prover/src/prover/context.rs) *)

\* threads that call ProverContext::initialize_concurrent_host_allocator
Callers == 1 .. NumCallers

\* ConcurrentStaticHostAllocator::is_initialized_global()
is_initialized_global == concurrent_host_allocator # 0

(* SpecContext: the callers run the function step by step, interleaved *)

InitContext ==
    /\ host_allocations_count \in 0 .. MaxHostAllocations
    /\ ctx_pc = [t \in Callers |-> "idle"]
    /\ ctx_allocations = [t \in Callers |-> 0]
    /\ concurrent_host_allocator = 0
    /\ initialize_global_calls = 0
    /\ St1Idle
    /\ MemIdle
    /\ OrcIdle
    /\ GcIdle
    /\ split_out = NoSplit
    /\ commuted_out = NoResult
    /\ AlgIdle
    /\ RecIdle
    /\ WorkerIdle

\* assert!(!ConcurrentStaticHostAllocator::is_initialized_global(), ..)
CheckInitGuard ==
    /\ \E t \in Callers :
           /\ ctx_pc[t] = "idle"
           /\ ctx_pc' = [ctx_pc EXCEPT
                            ![t] = IF is_initialized_global THEN "panic" ELSE "alloc"]
    /\ UNCHANGED <<host_allocations_count, ctx_allocations, concurrent_host_allocator,
                   initialize_global_calls, st1_vars, mem_vars, orc_vars, gc_vars,
                   split_out, commuted_out, alg_vars, rec_vars, wrk_vars>>

\* allocations.push(HostAllocation::alloc(host_allocation_size, DEFAULT)?):
\* the pinned allocation succeeds, or fails and the function returns the
\* error, dropping the allocations made so far
AllocHost ==
    /\ \E t \in Callers :
           /\ ctx_pc[t] = "alloc"
           /\ ctx_allocations[t] < host_allocations_count
           /\ \/ /\ ctx_allocations' = [ctx_allocations EXCEPT ![t] = @ + 1]
                 /\ UNCHANGED ctx_pc
              \/ /\ ctx_allocations' = [ctx_allocations EXCEPT ![t] = 0]
                 /\ ctx_pc' = [ctx_pc EXCEPT ![t] = "Err"]
    /\ UNCHANGED <<host_allocations_count, concurrent_host_allocator,
                   initialize_global_calls, st1_vars, mem_vars, orc_vars, gc_vars,
                   split_out, commuted_out, alg_vars, rec_vars, wrk_vars>>

\* ConcurrentStaticHostAllocator::initialize_global(allocations, block_log_size);
\* Ok(()): the global allocator now is the one built from the caller's
\* allocations
InitializeGlobal ==
    /\ \E t \in Callers :
           /\ ctx_pc[t] = "alloc"
           /\ ctx_allocations[t] = host_allocations_count
           /\ concurrent_host_allocator' = t
           /\ ctx_pc' = [ctx_pc EXCEPT ![t] = "Ok"]
    /\ initialize_global_calls' = initialize_global_calls + 1
    /\ UNCHANGED <<host_allocations_count, ctx_allocations, st1_vars, mem_vars,
                   orc_vars, gc_vars, split_out, commuted_out, alg_vars, rec_vars,
                   wrk_vars>>

\* one step of one caller of initialize_concurrent_host_allocator
NextContext == CheckInitGuard \/ AllocHost \/ InitializeGlobal

SpecContext == InitContext /\ [][NextContext]_vars

----------------------------------------------------------------------------
(* Memory commitment job (gpu_prover/src/prover/memory.rs) *)

\* TracingDataDevice
TracingDataDevice == {"Main", "Delegation"}

\* the calls of commit_memory and finish that return a CudaResult, in the
\* order of the code; one of them, or none, returns an error in a run
MemoryCalls ==
    <<"TraceHolder::new", "ensure_transferred", "Range::new", "range.start",
      "generate_memory_values", "make_evaluations_sum_to_zero_extend_and_commit",
      "callbacks.schedule", "range.end", "CudaEvent::create_with_flags",
      "is_finished_event.record">>
FinishCalls == <<"is_finished_event.synchronize", "range.elapsed">>
MemoryFailures ==
    {"none"} \cup {MemoryCalls[i] : i \in 1 .. Len(MemoryCalls)}
             \cup {FinishCalls[i] : i \in 1 .. Len(FinishCalls)}

\* what a successful call puts on the exec stream: ensure_transferred makes
\* the stream wait for the transfer, the kernels and markers are queued as
\* they are, schedule queues the closure
StreamOp(call, data_device) ==
    IF call = "ensure_transferred" THEN <<"wait_transfer">>
    ELSE IF call = "range.start" THEN <<"range_start">>
    ELSE IF call = "generate_memory_values"
    THEN <<IF data_device = "Main" THEN "generate_memory_values_main"
           ELSE "generate_memory_values_delegation">>
    ELSE IF call = "make_evaluations_sum_to_zero_extend_and_commit"
    THEN <<"extend_and_commit">>
    ELSE IF call = "callbacks.schedule" THEN <<"transform_tree_caps_fn">>
    ELSE IF call = "range.end" THEN <<"range_end">>
    ELSE IF call = "is_finished_event.record" THEN <<"is_finished_event">>
    ELSE <<>>

\* the kernels among the stream operations
Kernels ==
    {"generate_memory_values_main", "generate_memory_values_delegation",
     "extend_and_commit"}

RECURSIVE CommitMemoryFrom(_, _, _)
\* commit_memory from its i-th call on: the calls made, the operations
\* queued, and whether the function returned the job
CommitMemoryFrom(i, data_device, fails) ==
    IF i > Len(MemoryCalls) THEN [calls |-> <<>>, ops |-> <<>>, ok |-> TRUE]
    ELSE IF MemoryCalls[i] = fails
    THEN [calls |-> <<MemoryCalls[i]>>, ops |-> <<>>, ok |-> FALSE]
    ELSE LET rest == CommitMemoryFrom(i + 1, data_device, fails)
         IN [calls |-> <<MemoryCalls[i]>> \o rest.calls,
             ops |-> StreamOp(MemoryCalls[i], data_device) \o rest.ops,
             ok |-> rest.ok]

\* commit_memory(tracing_data_transfer, circuit, .., context)
commit_memory(data_device, fails) == CommitMemoryFrom(1, data_device, fails)

\* is_finished_event.synchronize() returns: with an error, or because the
\* stream has passed the recorded event
synchronize_returns(queued, fails) ==
    \/ fails = "is_finished_event.synchronize"
    \/ \A i \in 1 .. Len(queued) : queued[i] # "is_finished_event"

(* SpecMemory: commit_memory, the exec stream, finish *)

InitMemory ==
    /\ mem_data_device \in TracingDataDevice
    /\ mem_fails \in MemoryFailures
    /\ transfer_done = FALSE
    /\ mem_calls = <<>>
    /\ exec_stream = <<>>
    /\ exec_done = <<>>
    /\ mem_job = "none"
    /\ mem_callbacks = "none"
    /\ tree_caps = NoTreeCaps
    /\ mem_result = "none"
    /\ St1Idle
    /\ CtxIdle
    /\ OrcIdle
    /\ GcIdle
    /\ split_out = NoSplit
    /\ commuted_out = NoResult
    /\ AlgIdle
    /\ RecIdle
    /\ WorkerIdle

\* let job = commit_memory(..)?: on an error the locals, the Callbacks
\* collection and the tree_caps box among them, are dropped
CommitMemory ==
    /\ mem_job = "none"
    /\ LET out == commit_memory(mem_data_device, mem_fails)
       IN  /\ mem_calls' = out.calls
           /\ exec_stream' = out.ops
           /\ mem_job' = IF out.ok THEN "live" ELSE "Err"
           /\ mem_callbacks' = IF out.ok THEN "held" ELSE "dropped"
           /\ tree_caps' = [tree_caps EXCEPT !.dropped = ~out.ok]
    /\ UNCHANGED <<mem_data_device, mem_fails, transfer_done, exec_done, mem_result,
                   st1_vars, ctx_vars, orc_vars, gc_vars, split_out, commuted_out,
                   alg_vars, rec_vars, wrk_vars>>

\* the h2d stream completes the upload of the tracing data
TransferCompletes ==
    /\ ~transfer_done
    /\ transfer_done' = TRUE
    /\ UNCHANGED <<mem_data_device, mem_fails, mem_calls, exec_stream, exec_done,
                   mem_job, mem_callbacks, tree_caps, mem_result,
                   st1_vars, ctx_vars, orc_vars, gc_vars, split_out, commuted_out,
                   alg_vars, rec_vars, wrk_vars>>

\* The exec stream runs its next operation. The closure, while its Callbacks
\* collection is alive, runs assert!(dst.replace(tree_caps).is_none()); once
\* the collection is dropped the closure and the box it writes to are gone
\* and running it is undefined: it may write, or do anything else.
ExecStreamStep ==
    /\ exec_stream # <<>>
    /\ Head(exec_stream) = "wait_transfer" => transfer_done
    /\ exec_stream' = Tail(exec_stream)
    /\ exec_done' = Append(exec_done, Head(exec_stream))
    /\ IF Head(exec_stream) = "transform_tree_caps_fn"
       THEN IF mem_callbacks = "held"
            THEN tree_caps' = [tree_caps EXCEPT !.some = TRUE, !.writes = @ + 1,
                                                !.assert_failed = tree_caps.some]
            ELSE \E outcome \in BOOLEAN :
                     tree_caps' = [tree_caps EXCEPT !.undefined = TRUE,
                                                    !.some = outcome]
       ELSE UNCHANGED tree_caps
    /\ UNCHANGED <<mem_data_device, mem_fails, transfer_done, mem_calls, mem_job,
                   mem_callbacks, mem_result,
                   st1_vars, ctx_vars, orc_vars, gc_vars, split_out, commuted_out,
                   alg_vars, rec_vars, wrk_vars>>

\* job.finish(): synchronize()?, drop(callbacks), tree_caps.unwrap(),
\* range.elapsed()?
Finish ==
    /\ mem_job = "live"
    /\ synchronize_returns(exec_stream, mem_fails)
    /\ mem_job' = "finished"
    /\ mem_callbacks' = "dropped"
    /\ mem_calls' =
           mem_calls \o
           (IF mem_fails = "is_finished_event.synchronize"
            THEN <<"is_finished_event.synchronize">>
            ELSE <<"is_finished_event.synchronize", "drop(callbacks)",
                   "tree_caps.unwrap">>
                 \o (IF tree_caps.some THEN <<"range.elapsed">> ELSE <<>>))
    /\ mem_result' =
           IF mem_fails = "is_finished_event.synchronize" THEN "Err"
           ELSE IF ~tree_caps.some THEN "panic"
           ELSE IF mem_fails = "range.elapsed" THEN "Err"
           ELSE "Ok"
    /\ tree_caps' = [tree_caps EXCEPT !.dropped = mem_result' # "Ok"]
    /\ UNCHANGED <<mem_data_device, mem_fails, transfer_done, exec_stream, exec_done,
                   st1_vars, ctx_vars, orc_vars, gc_vars, split_out, commuted_out,
                   alg_vars, rec_vars, wrk_vars>>

NextMemory == CommitMemory \/ TransferCompletes \/ ExecStreamStep \/ Finish

SpecMemory == InitMemory /\ [][NextMemory]_vars


----------------------------------------------------------------------------
(* CPU tracing worker (gpu_prover/src/execution/cpu_worker.rs) *)

\* the circuit types a worker or a skip_set entry can name
MainCircuitType == {"RiscVCycles", "ReducedRiscVMachine"}
Main(t) == <<"Main", t>>
Delegation(t) == <<"Delegation", t>>
CircuitType ==
    {Main(t) : t \in MainCircuitType} \cup {Delegation(t) : t \in DelegationCircuitType}

\* domain size of a main circuit, scaled down to 2^LogDomainSize
get_domain_size(t) == 2 ^ LogDomainSize
\* let cycles_per_chunk = domain_size - 1
cycles_per_chunk == get_domain_size(circuit_type) - 1
\* capacity of one delegation witness, scaled down
get_num_delegation_cycles(t) == NumDelegationCycles

div_ceil(a, b) == (a + b - 1) \div b

\* HashMap::get(k).copied().unwrap_or_default() and HashMap insertion
GetOrDefault(m, k) == IF k \in DOMAIN m THEN m[k] ELSE 0
Put(m, k, v) == [x \in DOMAIN m \cup {k} |-> IF x = k THEN v ELSE m[x]]
Remove(m, k) == [x \in DOMAIN m \ {k} |-> m[x]]
EmptyMap == [x \in {} |-> 0]

\* a skip test that never finds the pair
skip_set_contains_never(t, i) == FALSE

\* skip_set.contains(&(circuit_type, index))
skip_set_contains(t, i) == <<t, i>> \in skip_set

\* WorkerResult messages
SetupAndTeardownChunk(i, chunk) ==
    [msg |-> "SetupAndTeardownChunk", index |-> i, chunk |-> chunk]
CyclesChunk(i) == [msg |-> "CyclesChunk", index |-> i]
DelegationWitness(t, sequence, n) ==
    [msg |-> "DelegationWitness", delegation_type |-> t,
     circuit_sequence |-> sequence, num_requests |-> n]
RAMTracingResult(n) == [msg |-> "RAMTracingResult", chunks_traced_count |-> n]
CyclesTracingResult(n) == [msg |-> "CyclesTracingResult", chunks_traced_count |-> n]
DelegationTracingResult(counts) ==
    [msg |-> "DelegationTracingResult", delegation_chunks_counts |-> counts]

\* a skipped chunk that gets a witness buffer although no allocator was
\* received for it
Counter_builds_witness(t) ==
    [kind |-> "Witness", num_requests |-> get_num_delegation_cycles(t), count |-> 0]

\* DelegationTracingType::Counter / ::Witness with the number of requests
\* recorded so far
Counter(t) == [kind |-> "Counter", num_requests |-> get_num_delegation_cycles(t), count |-> 0]
Witness(t) == [kind |-> "Witness", num_requests |-> get_num_delegation_cycles(t), count |-> 0]

\* messages that carry a buffer built on an allocator of the free pool
CarriesBuffer(m) ==
    \/ m.msg = "SetupAndTeardownChunk" /\ m.chunk = "Some"
    \/ m.msg = "CyclesChunk"
    \/ m.msg = "DelegationWitness"

IsTerminalResult(m) ==
    m.msg \in {"RAMTracingResult", "CyclesTracingResult", "DelegationTracingResult"}

\* an end-of-execution assertion that always passes
end_of_execution_asserted_always(reached) == TRUE

\* assert!(end_reached, "end of execution was not reached ...")
end_of_execution_asserted(reached) == reached

\* state.run_cycles(.., cycles_per_chunk): the simulator executes one chunk
\* of cycles, with a tracer that records or with one that fast-forwards
run_cycles(cycles) == cycles + cycles_per_chunk

\* the for loop over 0..num_main_chunks_upper_bound has another iteration
LoopContinues ==
    /\ pc = "loop"
    /\ ~end_reached
    /\ chunk_index < num_main_chunks_upper_bound

\* the for loop is left, by break or by exhausting the range
LoopExits ==
    /\ pc = "loop"
    /\ (end_reached \/ chunk_index >= num_main_chunks_upper_bound)

Fail(reason) == pc' = "panic" /\ failure' = reason

\* free_allocator.recv().unwrap() for the chunk (t, i): blocks while the
\* pool is empty
RecvAllocator(t, i) ==
    /\ free_allocator > 0
    /\ free_allocator' = free_allocator - 1
    /\ allocations' = Append(allocations, <<t, i>>)

(* Mode A: trace_touched_ram *)

\* the chunker's number of setup and teardown chunks: the touched cells in
\* chunks of cycles_per_chunk cells
get_chunks_count(cells) == div_ceil(cells, cycles_per_chunk)

\* the classification of a chunk without its chunk=None message
none_chunk_not_sent(rs, i) == rs

\* the chunk=None message of a chunk that needs no setup and teardown,
\* unless the chunk is skipped
send_none_chunk(rs, i) ==
    IF skip_set_contains(Main(circuit_type), i)
    THEN rs
    ELSE Append(rs, SetupAndTeardownChunk(i, "None"))

\* one iteration of the simulation loop: the simulator runs one chunk,
\* touches some new RAM cells and reports whether it halted
TraceTouchedRamChunk ==
    /\ mode = "TraceTouchedRam"
    /\ LoopContinues
    /\ \E finished \in BOOLEAN, touched \in 0 .. MaxTouchedPerChunk :
         LET traced == chunks_traced_count + 1
             touched_cells == touched_ram_cells_count + touched
             chunks_needed_for_setup_and_teardowns ==
                 div_ceil(touched_cells, cycles_per_chunk)
             chunks_diff == traced - next_chunk_index_with_no_setup_and_teardown
             no_setup == chunks_needed_for_setup_and_teardowns < chunks_diff
         IN /\ chunks_traced_count' = traced
            /\ touched_ram_cells_count' = touched_cells
            /\ results' =
                 IF no_setup
                 THEN send_none_chunk(results, next_chunk_index_with_no_setup_and_teardown)
                 ELSE results
            /\ next_chunk_index_with_no_setup_and_teardown' =
                 IF no_setup
                 THEN next_chunk_index_with_no_setup_and_teardown + 1
                 ELSE next_chunk_index_with_no_setup_and_teardown
            /\ end_reached' = finished
            /\ chunk_index' = IF finished THEN chunk_index ELSE chunk_index + 1
    /\ cycles_executed' = run_cycles(cycles_executed)
    /\ UNCHANGED <<wrk_params, free_allocator, returned, allocations, pc, failure,
                   index, delegation_vars, alg_vars, rec_vars, ext_vars>>

\* after the loop: the end-of-execution assertion, the chunker and the
\* assertion on the chunk counts
TraceTouchedRamEnd ==
    /\ mode = "TraceTouchedRam"
    /\ LoopExits
    /\ IF ~end_of_execution_asserted(end_reached)
       THEN Fail("end_not_reached") /\ UNCHANGED index
       ELSE LET setup_and_teardown_chunks_count ==
                    get_chunks_count(touched_ram_cells_count)
            IN IF chunks_traced_count #
                    setup_and_teardown_chunks_count
                        + next_chunk_index_with_no_setup_and_teardown
               THEN Fail("chunks_count_mismatch") /\ UNCHANGED index
               ELSE /\ pc' = "setup_and_teardown"
                    /\ index' = next_chunk_index_with_no_setup_and_teardown
                    /\ UNCHANGED failure
    /\ UNCHANGED <<wrk_params, channel_vars, loop_vars,
                   next_chunk_index_with_no_setup_and_teardown,
                   touched_ram_cells_count, delegation_vars, alg_vars, rec_vars, ext_vars>>

\* one iteration of the loop over the populated setup and teardown chunks
SetupAndTeardownChunkStep ==
    /\ mode = "TraceTouchedRam"
    /\ pc = "setup_and_teardown"
    /\ index < chunks_traced_count
    /\ IF skip_set_contains(Main(circuit_type), index)
       THEN UNCHANGED <<free_allocator, allocations, results>>
       ELSE /\ RecvAllocator(Main(circuit_type), index)
            /\ results' = Append(results, SetupAndTeardownChunk(index, "Some"))
    /\ index' = index + 1
    /\ UNCHANGED <<wrk_params, returned, pc, failure, loop_vars,
                   next_chunk_index_with_no_setup_and_teardown,
                   touched_ram_cells_count, delegation_vars, alg_vars, rec_vars, ext_vars>>

\* the terminal message of Mode A
SendRAMTracingResult ==
    /\ mode = "TraceTouchedRam"
    /\ pc = "setup_and_teardown"
    /\ index >= chunks_traced_count
    /\ results' = Append(results, RAMTracingResult(chunks_traced_count))
    /\ pc' = "done"
    /\ UNCHANGED <<wrk_params, free_allocator, returned, allocations, failure,
                   loop_vars, touched_vars, delegation_vars, alg_vars, rec_vars, ext_vars>>

(* Mode B: trace_cycles *)

\* a chunk traced whatever the skip_set holds
should_trace_chunk_unfiltered(i) == i % split_count = split_index

\* chunk_index % split_count == split_index && !skip_set.contains(..)
should_trace_chunk(i) ==
    /\ i % split_count = split_index
    /\ ~skip_set_contains(Main(circuit_type), i)

\* one iteration of the simulation loop: a traced chunk takes an allocator
\* and is sent, any other chunk is fast-forwarded
TraceCyclesChunk ==
    /\ mode = "TraceCycles"
    /\ LoopContinues
    /\ IF split_count = 0
       THEN /\ Fail("remainder_by_zero")
            /\ UNCHANGED <<free_allocator, allocations, results, loop_vars>>
       ELSE /\ IF should_trace_chunk(chunk_index)
               THEN /\ RecvAllocator(Main(circuit_type), chunk_index)
                    /\ results' = Append(results, CyclesChunk(chunk_index))
               ELSE UNCHANGED <<free_allocator, allocations, results>>
            /\ chunks_traced_count' = chunks_traced_count + 1
            /\ cycles_executed' = run_cycles(cycles_executed)
            /\ \E finished \in BOOLEAN :
                 /\ end_reached' = finished
                 /\ chunk_index' = IF finished THEN chunk_index ELSE chunk_index + 1
            /\ UNCHANGED <<pc, failure>>
    /\ UNCHANGED <<wrk_params, returned, touched_vars, delegation_vars,
                   alg_vars, rec_vars, ext_vars>>

\* after the loop: the end-of-execution assertion and the terminal message
TraceCyclesEnd ==
    /\ mode = "TraceCycles"
    /\ LoopExits
    /\ IF ~end_of_execution_asserted(end_reached)
       THEN Fail("end_not_reached") /\ UNCHANGED results
       ELSE /\ results' = Append(results, CyclesTracingResult(chunks_traced_count))
            /\ pc' = "done"
            /\ UNCHANGED failure
    /\ UNCHANGED <<wrk_params, free_allocator, returned, allocations, loop_vars,
                   touched_vars, delegation_vars, alg_vars, rec_vars, ext_vars>>

(* Mode C: trace_delegations *)

NoType == "none"

\* a chunk count that stays as it is
chunk_count_kept(value) == value

\* *value += 1 after a delegation state of the type is finalized
chunk_count_incremented(value) == value + 1

\* delegation_swap_fn(t, Some(prev)) up to its free_allocator.recv(): the
\* previous state is finalized, and the next one is a counter when the next
\* chunk of the type is skipped
SwapPrevious(t, prev) ==
    LET value == GetOrDefault(delegation_chunks_counts, t)
        current_count == chunk_count_incremented(value)
    IN /\ results' =
            IF prev.kind = "Witness"
            THEN Append(results, DelegationWitness(t, value, prev.count))
            ELSE results
       /\ delegation_chunks_counts' = Put(delegation_chunks_counts, t, current_count)
       /\ IF skip_set_contains(Delegation(t), current_count)
          THEN /\ tracing_types' = Put(tracing_types, t, Counter(t))
               /\ pc' = "loop"
               /\ pending' = NoType
          ELSE /\ tracing_types' = Remove(tracing_types, t)
               /\ pc' = "swap_recv"
               /\ pending' = t

\* the tracer records a delegation request in the tracing state of its
\* type and hands a state that became full to the swap function
RecordRequest(t, tracing_type) ==
    LET recorded == [tracing_type EXCEPT !.count = @ + 1] IN
    IF recorded.count < recorded.num_requests
    THEN /\ tracing_types' = Put(tracing_types, t, recorded)
         /\ pc' = "loop"
         /\ pending' = NoType
         /\ UNCHANGED <<results, delegation_chunks_counts>>
    ELSE SwapPrevious(t, recorded)

\* the simulator meets a delegation request of type t in the current chunk;
\* a type without a tracing state gets one from delegation_swap_fn(t, None)
DelegationRequest(t) ==
    /\ mode = "TraceDelegations"
    /\ LoopContinues
    /\ requests < MaxRequestsPerChunk
    /\ requests' = requests + 1
    /\ IF t \in DOMAIN tracing_types
       THEN RecordRequest(t, tracing_types[t])
       ELSE IF skip_set_contains(Delegation(t), GetOrDefault(delegation_chunks_counts, t))
            THEN RecordRequest(t, Counter(t))
            ELSE /\ pc' = "first_recv"
                 /\ pending' = t
                 /\ UNCHANGED <<tracing_types, results, delegation_chunks_counts>>
    /\ UNCHANGED <<wrk_params, free_allocator, returned, allocations, failure,
                   loop_vars, touched_vars, alg_vars, rec_vars, ext_vars>>

\* delegation_swap_fn(t, None) receives its allocator, and the request that
\* waited for the witness is recorded
FirstWitnessRecv ==
    /\ mode = "TraceDelegations"
    /\ pc = "first_recv"
    /\ RecvAllocator(Delegation(pending), GetOrDefault(delegation_chunks_counts, pending))
    /\ RecordRequest(pending, Witness(pending))
    /\ UNCHANGED <<wrk_params, returned, failure, loop_vars, touched_vars, requests,
                   alg_vars, rec_vars, ext_vars>>

\* delegation_swap_fn(t, Some(prev)) receives its allocator and returns the
\* fresh witness
SwapWitnessRecv ==
    /\ mode = "TraceDelegations"
    /\ pc = "swap_recv"
    /\ RecvAllocator(Delegation(pending), GetOrDefault(delegation_chunks_counts, pending))
    /\ tracing_types' = Put(tracing_types, pending, Witness(pending))
    /\ pc' = "loop"
    /\ pending' = NoType
    /\ UNCHANGED <<wrk_params, returned, results, failure, loop_vars, touched_vars,
                   delegation_chunks_counts, requests, alg_vars, rec_vars, ext_vars>>

\* run_cycles returns for the current chunk
TraceDelegationsChunk ==
    /\ mode = "TraceDelegations"
    /\ LoopContinues
    /\ chunks_traced_count' = chunks_traced_count + 1
    /\ cycles_executed' = run_cycles(cycles_executed)
    /\ \E finished \in BOOLEAN :
         /\ end_reached' = finished
         /\ chunk_index' = IF finished THEN chunk_index ELSE chunk_index + 1
    /\ requests' = 0
    /\ UNCHANGED <<wrk_params, channel_vars, pc, failure, touched_vars,
                   tracing_types, delegation_chunks_counts, pending,
                   alg_vars, rec_vars, ext_vars>>

\* after the loop: the end-of-execution assertion
TraceDelegationsEnd ==
    /\ mode = "TraceDelegations"
    /\ LoopExits
    /\ IF ~end_of_execution_asserted(end_reached)
       THEN Fail("end_not_reached")
       ELSE pc' = "drain" /\ UNCHANGED failure
    /\ UNCHANGED <<wrk_params, channel_vars, loop_vars, touched_vars,
                   delegation_vars, alg_vars, rec_vars, ext_vars>>

\* one iteration of the loop over tracing_types.drain(), in any order
DrainDelegation(t) ==
    /\ mode = "TraceDelegations"
    /\ pc = "drain"
    /\ t \in DOMAIN tracing_types
    /\ LET tracing_type == tracing_types[t]
           value == GetOrDefault(delegation_chunks_counts, t)
           is_empty == tracing_type.count = 0
       IN IF tracing_type.kind = "Counter"
          THEN IF tracing_type.count = 0
               THEN /\ Fail("counter_count_zero")
                    /\ delegation_chunks_counts' = Put(delegation_chunks_counts, t, value)
                    /\ UNCHANGED results
               ELSE /\ delegation_chunks_counts' =
                         Put(delegation_chunks_counts, t, chunk_count_incremented(value))
                    /\ UNCHANGED <<results, pc, failure>>
          ELSE /\ results' = Append(results, DelegationWitness(t, value, tracing_type.count))
               /\ delegation_chunks_counts' =
                    Put(delegation_chunks_counts, t,
                        IF is_empty THEN value ELSE chunk_count_incremented(value))
               /\ UNCHANGED <<pc, failure>>
    /\ tracing_types' = Remove(tracing_types, t)
    /\ UNCHANGED <<wrk_params, free_allocator, returned, allocations, loop_vars,
                   touched_vars, requests, pending, alg_vars, rec_vars, ext_vars>>

\* the terminal message of Mode C
SendDelegationTracingResult ==
    /\ mode = "TraceDelegations"
    /\ pc = "drain"
    /\ DOMAIN tracing_types = {}
    /\ results' = Append(results, DelegationTracingResult(delegation_chunks_counts))
    /\ pc' = "done"
    /\ UNCHANGED <<wrk_params, free_allocator, returned, allocations, failure,
                   loop_vars, touched_vars, delegation_vars, alg_vars, rec_vars, ext_vars>>

(* the consumer of the results *)

BufferMessages == {i \in 1 .. Len(results) : CarriesBuffer(results[i])}

\* the consumer is done with a buffer it received and puts its allocator
\* back into the free pool
ReturnAllocator ==
    /\ pc # "idle"
    /\ returned < Cardinality(BufferMessages)
    /\ returned' = returned + 1
    /\ free_allocator' = free_allocator + 1
    /\ UNCHANGED <<wrk_params, allocations, results, pc, failure, loop_vars,
                   touched_vars, delegation_vars, alg_vars, rec_vars, ext_vars>>

(* SpecWorker: one run of a worker in one of the three modes *)

CpuWorkerMode == {"TraceTouchedRam", "TraceCycles", "TraceDelegations"}

SkipPairs == CircuitType \X (0 .. MaxChunks - 1)
SkipSets == {s \in SUBSET SkipPairs : Cardinality(s) <= MaxSkipped}

WorkerStart ==
    /\ free_allocator \in 0 .. MaxAllocators
    /\ returned = 0
    /\ allocations = <<>>
    /\ results = <<>>
    /\ chunk_index = 0
    /\ chunks_traced_count = 0
    /\ end_reached = FALSE
    /\ cycles_executed = 0
    /\ next_chunk_index_with_no_setup_and_teardown = 0
    /\ touched_ram_cells_count = 0
    /\ index = 0
    /\ tracing_types = EmptyMap
    /\ delegation_chunks_counts = EmptyMap
    /\ requests = 0
    /\ pending = NoType
    /\ failure = "none"

InitWorker ==
    /\ mode \in CpuWorkerMode
    /\ circuit_type \in MainCircuitType
    /\ skip_set \in SkipSets
    /\ num_main_chunks_upper_bound \in 0 .. MaxChunks
    /\ split_count \in IF mode = "TraceCycles" THEN 0 .. MaxSplitCount ELSE {1}
    /\ split_index \in IF mode = "TraceCycles" THEN 0 .. MaxSplitCount - 1 ELSE {0}
    /\ WorkerStart
    /\ pc = "loop"
    /\ AlgIdle
    /\ RecIdle
    /\ ExtIdle

NextWorker ==
    \/ TraceTouchedRamChunk
    \/ TraceTouchedRamEnd
    \/ SetupAndTeardownChunkStep
    \/ SendRAMTracingResult
    \/ TraceCyclesChunk
    \/ TraceCyclesEnd
    \/ \E t \in DelegationCircuitType : DelegationRequest(t)
    \/ FirstWitnessRecv
    \/ SwapWitnessRecv
    \/ TraceDelegationsChunk
    \/ TraceDelegationsEnd
    \/ \E t \in DelegationCircuitType : DrainDelegation(t)
    \/ SendDelegationTracingResult
    \/ ReturnAllocator

SpecWorker == InitWorker /\ [][NextWorker]_vars

(* SpecDelegationsFair: one run of a worker in Mode C with a free pool     *)
(* that is not empty; the worker thread keeps running while it can take a  *)
(* step, and the consumer puts back every allocator it was sent            *)

InitDelegations ==
    /\ InitWorker
    /\ mode = "TraceDelegations"
    /\ free_allocator >= 1

TraceDelegationsStep ==
    \/ \E t \in DelegationCircuitType : DelegationRequest(t)
    \/ FirstWitnessRecv
    \/ SwapWitnessRecv
    \/ TraceDelegationsChunk
    \/ TraceDelegationsEnd
    \/ \E t \in DelegationCircuitType : DrainDelegation(t)
    \/ SendDelegationTracingResult

NextDelegations == TraceDelegationsStep \/ ReturnAllocator

SpecDelegationsFair ==
    /\ InitDelegations
    /\ [][NextDelegations]_vars
    /\ WF_vars(TraceDelegationsStep)
    /\ WF_vars(ReturnAllocator)

----------------------------------------------------------------------------
(* The polynomial a term sequence denotes, independent of the code's        *)
(* normal form: the coefficient of each monomial (a sorted variable slice)  *)

Monomials ==
    {s \in UNION {Slices(n) : n \in 0 .. TERM_INNER_CAPACITY} : is_sorted(s)}

MonomialOf(t) == SortVars(as_slice(t))

RECURSIVE PolyCoeff(_, _)
PolyCoeff(ts, m) ==
    IF ts = <<>> THEN 0
    ELSE (PolyCoeff(Tail(ts), m)
            + (IF MonomialOf(Head(ts)) = m THEN Head(ts).coeff ELSE 0)) % FieldModulus

PolyEq(a, b) == \A m \in Monomials : PolyCoeff(a, m) = PolyCoeff(b, m)
IsZeroPoly(a) == \A m \in Monomials : PolyCoeff(a, m) = 0

\* coefficient of m in the product of the polynomials of a and b
RECURSIVE ProductRow(_, _, _)
ProductRow(t, b, m) ==
    IF b = <<>> THEN 0
    ELSE (ProductRow(t, Tail(b), m)
            + (IF SortVars(as_slice(t) \o as_slice(Head(b))) = m
               THEN t.coeff * Head(b).coeff ELSE 0)) % FieldModulus

RECURSIVE ProductCoeff(_, _, _)
ProductCoeff(a, b, m) ==
    IF a = <<>> THEN 0
    ELSE (ProductCoeff(Tail(a), b, m) + ProductRow(Head(a), b, m)) % FieldModulus

\* degree of the product polynomial (0 for the zero polynomial)
ProductDegree(a, b) ==
    LET ds == {Len(m) : m \in {x \in Monomials : ProductCoeff(a, b, x) # 0}} IN
    IF ds = {} THEN 0 ELSE CHOOSE d \in ds : \A e \in ds : e <= d

\* canonical form of a normalized constraint
TermIsNormal(t) ==
    \/ t = Constant(t.coeff)
    \/ /\ t.kind = "Expression"
       /\ t.degree \in 1 .. TERM_INNER_CAPACITY
       /\ t.coeff \in F \ {F_ZERO}
       /\ is_sorted(as_slice(t))
       /\ \A i \in 1 .. t.degree : t.inner[i] # Placeholder
       /\ \A i \in (t.degree + 1) .. TERM_INNER_CAPACITY : t.inner[i] = Placeholder

LikeTerms(s, o) == Term_degree(s) = Term_degree(o) /\ MonomialOf(s) = MonomialOf(o)

Canonical(ts) ==
    /\ \A i \in 1 .. Len(ts) : TermIsNormal(ts[i]) /\ ts[i].coeff # F_ZERO
    /\ \A i, j \in 1 .. Len(ts) : i < j => Term_cmp(ts[i], ts[j]) = -1
    /\ \A i, j \in 1 .. Len(ts) : i < j => ~LikeTerms(ts[i], ts[j])
    /\ Constraint_degree(ts) <= 2

----------------------------------------------------------------------------
(* Claims about Constraint::normalize (SpecNormalize) *)

\* C1: whenever Constraint::normalize returns, the constraint is canonical:
\* every term normalized, terms sorted by the Term order, no like terms, no
\* zero coefficient, degree at most 2 and at most the degree before the call,
\* and an identically zero polynomial is the empty sequence.
C1_NormalizeCanonical ==
    alg_op \in {"normalize", "normalize_twice"} =>
        /\ Canonical(self_terms)
        /\ Constraint_degree(self_terms) <= Constraint_degree(alg_in)
        /\ IsZeroPoly(alg_in) => self_terms = <<>>

\* like terms x*y cancel part-way (1 + (-1) = 0) and a third like term follows
C1_Witness ==
    /\ alg_op = "normalize"
    /\ alg_in = <<Expression(F_ONE, <<2, 1>>), Expression(F_MINUS_ONE, <<1, 2>>),
                  Expression(F_MINUS_ONE, <<1, 2>>)>>
    /\ self_terms = <<Expression(F_MINUS_ONE, <<1, 2>>)>>

\* C2: normalization is idempotent: a second normalize succeeds and leaves
\* the term sequence exactly as the first call left it.
C2_NormalizeIdempotent ==
    /\ alg_op # "panic_twice"
    /\ alg_op = "normalize_twice" => self_terms = alg_out.terms

\* a second call on a constraint the first call changed and left with terms
C2_Witness ==
    /\ alg_op = "normalize_twice"
    /\ Len(alg_in) = MaxTerms
    /\ Len(self_terms) = 2
    /\ self_terms # alg_in

----------------------------------------------------------------------------
(* Claims about multiplication (SpecMul) *)

\* C7: C * D returns the normalized product polynomial whenever the product
\* has degree at most 2 and fails exactly when the product polynomial has
\* degree greater than 2, for operands normalized or not.
C7_MulFailsExactlyOnDegree ==
    alg_op \in {"mul", "panic"} =>
        IF ProductDegree(self_terms, rhs_terms) <= 2
        THEN /\ alg_op = "mul"
             /\ Canonical(alg_out.terms)
             /\ \A m \in Monomials :
                    PolyCoeff(alg_out.terms, m) = ProductCoeff(self_terms, rhs_terms, m)
        ELSE alg_op = "panic"

----------------------------------------------------------------------------
(* Claims about express_variable and substitute_variable (SpecSubstitute) *)

\* the variable occurs, with multiplicity 1 in every term that contains it
OccursLinearly(ts, v) ==
    /\ Constraint_contains_var(ts, v)
    /\ \A i \in 1 .. Len(ts) :
          Term_contains_var(ts[i], v) => Term_degree_for_var(ts[i], v) = 1

\* C5: substitution correctness: with E = C.express_variable(v), the call
\* C.substitute_variable(v, E).as_constant() returns 0.
C5_SubstitutionAsConstantZero ==
    (OccursLinearly(alg_in, variable) /\ alg_op \in {"panic", "as_constant"}) =>
        (alg_op = "as_constant" /\ alg_val = F_ZERO)

\* C6: E = C.express_variable(v) does not contain v and C equals a * (v - E)
\* as polynomials for the nonzero coefficient a of v.
C6_ExpressSolvesForVariable ==
    (OccursLinearly(alg_in, variable) /\ alg_op = "express_variable") =>
        /\ ~Constraint_contains_var(rhs_terms, variable)
        /\ \E a \in F \ {F_ZERO} :
              PolyEq(alg_in,
                     <<Expression(a, <<variable>>)>>
                        \o Constraint_scale(rhs_terms, negate(a)))

----------------------------------------------------------------------------
(* Claims about the recursion planner *)

MultipleOrOnly ==
    strategy \in {"UseReducedLog23MachineMultiple", "UseReducedLog23MachineOnly"}

CountsAtMostOne ==
    /\ proof_metadata.reduced_log_23_proof_count <= 1
    /\ \A i \in 1 .. Len(proof_metadata.delegation_proof_count) :
           proof_metadata.delegation_proof_count[i][2] <= 1

\* C4 as stated: for the Multiple and Only strategies,
\* finish_second_recursion_layer returns true exactly when proof_level == 0
\* and the log-23 proof count and every delegation proof count are at most 1.
C4_FinishIffTopLevelAndCountsSmall ==
    (rec_op = "finish_second_recursion_layer" /\ MultipleOrOnly)
        => ((rec_out = "true") <=> (proof_level = 0 /\ CountsAtMostOne))

\* C4 amended: for the Multiple and Only strategies,
\* finish_second_recursion_layer returns true exactly when proof_level is
\* not 0 and the log-23 proof count and every delegation proof count are at
\* most 1; at proof_level 0 it always returns false.
C4_FinishIffBelowTopLevelAndCountsSmall ==
    (rec_op = "finish_second_recursion_layer" /\ MultipleOrOnly)
        => ((rec_out = "true") <=> (proof_level # 0 /\ CountsAtMostOne))

\* the planner was asked below the top level with two delegation types and
\* small counts, and answered that the second layer is finished
C4_Witness ==
    /\ rec_op = "finish_second_recursion_layer"
    /\ MultipleOrOnly
    /\ proof_level # 0
    /\ CountsAtMostOne
    /\ Len(proof_metadata.delegation_proof_count) = 2
    /\ rec_out = "true"

----------------------------------------------------------------------------
(* Claims about the tracing worker *)

\* positions of the messages of one kind in results
MessagesOf(kind) == {i \in 1 .. Len(results) : results[i].msg = kind}

\* the chunk a chunk message is about, as a skip_set pair
ChunkOf(m) ==
    IF m.msg = "DelegationWitness"
    THEN <<Delegation(m.delegation_type), m.circuit_sequence>>
    ELSE <<Main(circuit_type), m.index>>

IsChunkMessage(m) ==
    m.msg \in {"SetupAndTeardownChunk", "CyclesChunk", "DelegationWitness"}

\* chunk indices below n that the skip_set names for the worker's circuit
SkippedBelow(n) == {i \in 0 .. n - 1 : <<Main(circuit_type), i>> \in skip_set}

\* C3: in Mode A, once the simulator has halted within the chunk bound,
\* chunks_traced_count equals the number of setup and teardown chunks the
\* chunker needs (touched cells over cycles_per_chunk, rounded up) plus the
\* number of chunk indices classified as needing no setup and teardown,
\* for every nondecreasing sequence of touched cell counts.
C3_TracedEqualsSetupPlusNoSetup ==
    (mode = "TraceTouchedRam" /\ pc # "idle" /\ end_reached)
        => chunks_traced_count =
               get_chunks_count(touched_ram_cells_count)
                   + next_chunk_index_with_no_setup_and_teardown

\* C8 as stated: the chunks_traced_count of a RAMTracingResult equals the
\* number of SetupAndTeardownChunk messages the worker sent, for any
\* skip_set.
C8_TracedCountEqualsChunkMessages ==
    \A i \in MessagesOf("RAMTracingResult") :
        results[i].chunks_traced_count
            = Cardinality(MessagesOf("SetupAndTeardownChunk"))

\* C8 amended: the chunks_traced_count of a RAMTracingResult equals the
\* number of SetupAndTeardownChunk messages the worker sent plus the number
\* of traced chunk indices that the skip_set names for the worker's circuit
\* type; the two numbers are equal when no traced chunk is skipped.
C8_TracedCountEqualsMessagesPlusSkipped ==
    \A i \in MessagesOf("RAMTracingResult") :
        results[i].chunks_traced_count
            = Cardinality(MessagesOf("SetupAndTeardownChunk"))
                + Cardinality(SkippedBelow(results[i].chunks_traced_count))

\* a Mode A run ended with chunk=None and populated chunks sent and with a
\* traced chunk skipped
C8_Witness ==
    /\ mode = "TraceTouchedRam"
    /\ pc = "done"
    /\ MessagesOf("RAMTracingResult") # {}
    /\ SkippedBelow(chunks_traced_count) # {}
    /\ \E i, j \in MessagesOf("SetupAndTeardownChunk") :
           results[i].chunk = "None" /\ results[j].chunk = "Some"

\* C9: in every mode, no chunk message is sent for a pair of the skip_set
\* (SetupAndTeardownChunk and CyclesChunk by index, DelegationWitness by
\* delegation type and circuit_sequence), and no allocator is received for
\* a skipped chunk.
C9_SkippedChunksSendNothing ==
    /\ \A i \in 1 .. Len(results) :
           IsChunkMessage(results[i]) => ChunkOf(results[i]) \notin skip_set
    /\ \A j \in 1 .. Len(allocations) : allocations[j] \notin skip_set

\* a Mode C run ended in which the second chunk of a delegation type was
\* skipped and counted, after the first one was sent as a witness
C9_Witness ==
    /\ mode = "TraceDelegations"
    /\ pc = "done"
    /\ \E t \in DelegationCircuitType :
           /\ <<Delegation(t), 1>> \in skip_set
           /\ GetOrDefault(delegation_chunks_counts, t) >= 2
           /\ \E i \in MessagesOf("DelegationWitness") :
                  results[i].delegation_type = t /\ results[i].circuit_sequence = 0

\* the simulation loop ran num_main_chunks_upper_bound chunks and the
\* simulator did not halt
BoundExhausted ==
    /\ pc # "idle"
    /\ ~end_reached
    /\ chunk_index = num_main_chunks_upper_bound

\* C10: in every mode, when the simulator has not halted after
\* num_main_chunks_upper_bound chunks (0 included), the worker can only
\* fail with the end-of-execution assertion: it sends no terminal result
\* message and, in Mode A, no populated setup and teardown chunk.
C10_NoHaltFailsWithoutResult ==
    BoundExhausted =>
        /\ pc \in {"loop", "panic"}
        /\ pc = "panic" => failure = "end_not_reached"
        /\ \A i \in 1 .. Len(results) :
               /\ ~IsTerminalResult(results[i])
               /\ ~(results[i].msg = "SetupAndTeardownChunk" /\ results[i].chunk = "Some")

\* a Mode A worker failed the end-of-execution assertion after it ran two
\* chunks or more and sent a chunk=None message
C10_Witness ==
    /\ mode = "TraceTouchedRam"
    /\ BoundExhausted
    /\ num_main_chunks_upper_bound >= 2
    /\ pc = "panic"
    /\ failure = "end_not_reached"
    /\ MessagesOf("SetupAndTeardownChunk") # {}

\* C11: within one run the chunk messages carry strictly increasing
\* indices, none repeated: SetupAndTeardownChunk by index with every
\* chunk=None message before every populated one, CyclesChunk by index,
\* and DelegationWitness by circuit_sequence within each delegation type,
\* the witnesses drained at halt included.
C11_ChunkMessagesStrictlyIncreasing ==
    \A i, j \in 1 .. Len(results) :
        (i < j /\ IsChunkMessage(results[i]) /\ IsChunkMessage(results[j])
               /\ ChunkOf(results[i])[1] = ChunkOf(results[j])[1])
            => /\ ChunkOf(results[i])[2] < ChunkOf(results[j])[2]
               /\ results[i].msg = "SetupAndTeardownChunk"
                     => ~(results[i].chunk = "Some" /\ results[j].chunk = "None")

\* a Mode C run ended after it sent two witnesses of one delegation type
\* from the swap function and a third one from the drain loop
C11_Witness ==
    /\ mode = "TraceDelegations"
    /\ pc = "done"
    /\ \E t \in DelegationCircuitType :
           {results[i].circuit_sequence :
               i \in {k \in MessagesOf("DelegationWitness") :
                          results[k].delegation_type = t}} = {0, 1, 2}

\* chunk buffers the worker holds: the witnesses of the delegation tracing
\* states (Mode A and Mode B send a buffer in the step that builds it)
HeldBuffers == {t \in DOMAIN tracing_types : tracing_types[t].kind = "Witness"}

\* C12: at every point of a run, in every mode, the buffer-carrying
\* messages sent so far plus the chunk buffers the worker holds are as many
\* as the allocators it received from free_allocator; chunk=None messages
\* and counters take no allocator.
C12_BuffersEqualAllocatorsReceived ==
    pc # "idle" =>
        Cardinality(BufferMessages) + Cardinality(HeldBuffers) = Len(allocations)

\* a Mode C worker holds a witness while it has sent another one and has
\* installed a counter for a skipped chunk of the other type
C12_Witness ==
    /\ mode = "TraceDelegations"
    /\ pc = "loop"
    /\ Cardinality(HeldBuffers) = 1
    /\ MessagesOf("DelegationWitness") # {}
    /\ \E t \in DOMAIN tracing_types : tracing_types[t].kind = "Counter"
    /\ Len(allocations) = 2

\* chunk indices below n that Mode B has to trace
TracedBelow(n) ==
    {i \in 0 .. n - 1 :
        i % split_count = split_index /\ <<Main(circuit_type), i>> \notin skip_set}

\* C13: in Mode B with split_index < split_count, a CyclesChunk is sent for
\* index i exactly when i is below the number of chunks executed,
\* i % split_count == split_index and (Main(circuit_type), i) is not skipped,
\* once each; traced and fast-forwarded chunks alike advance the simulation
\* by cycles_per_chunk cycles, so the chunks_traced_count of
\* CyclesTracingResult is the number of chunks the simulator executed,
\* whatever split_count, split_index and skip_set are.
C13_CyclesChunksExactlyTraced ==
    (mode = "TraceCycles" /\ pc # "idle" /\ split_index < split_count) =>
        /\ {results[i].index : i \in MessagesOf("CyclesChunk")}
               = TracedBelow(chunks_traced_count)
        /\ Cardinality(MessagesOf("CyclesChunk"))
               = Cardinality(TracedBelow(chunks_traced_count))
        /\ cycles_executed = chunks_traced_count * cycles_per_chunk
        /\ \A i \in MessagesOf("CyclesTracingResult") :
               results[i].chunks_traced_count * cycles_per_chunk = cycles_executed

\* a Mode B run of three chunks ended: chunk 0 was traced and sent, chunk 1
\* belongs to another worker and chunk 2 was skipped
C13_Witness ==
    /\ mode = "TraceCycles"
    /\ pc = "done"
    /\ split_count = 2
    /\ split_index = 0
    /\ chunks_traced_count = 3
    /\ <<Main(circuit_type), 2>> \in skip_set
    /\ Cardinality(MessagesOf("CyclesChunk")) = 1

----------------------------------------------------------------------------
(* More claims about the recursion planner *)

AllDelegationCountsAtMost(bound) ==
    \A i \in 1 .. Len(proof_metadata.delegation_proof_count) :
        proof_metadata.delegation_proof_count[i][2] <= bound

\* C15: switch_to_second_recursion_layer returns true exactly when the
\* first-layer thresholds are not exceeded: reduced_proof_count <= 2 and
\* every delegation count <= 1 for UseReducedLog23Machine,
\* reduced_proof_count <= 5 and every delegation count <= 2 for
\* UseReducedLog23MachineMultiple, always for UseReducedLog23MachineOnly,
\* the only strategy for which skip_first_layer() is true.
C15_SwitchIffThresholdsNotExceeded ==
    rec_op = "switch_to_second_recursion_layer" =>
        /\ rec_out[1] = (strategy = "UseReducedLog23MachineOnly")
        /\ rec_out[2] =
              CASE strategy = "UseReducedLog23Machine" ->
                       /\ proof_metadata.reduced_proof_count <= 2
                       /\ AllDelegationCountsAtMost(1)
                [] strategy = "UseReducedLog23MachineMultiple" ->
                       /\ proof_metadata.reduced_proof_count <= 5
                       /\ AllDelegationCountsAtMost(2)
                [] strategy = "UseReducedLog23MachineOnly" -> TRUE

\* the Multiple strategy was asked at its thresholds, 5 reduced proofs and
\* 2 proofs of a delegation type, and switches to the second layer
C15_Witness ==
    /\ rec_op = "switch_to_second_recursion_layer"
    /\ strategy = "UseReducedLog23MachineMultiple"
    /\ proof_metadata.reduced_proof_count = 5
    /\ \E i \in 1 .. Len(proof_metadata.delegation_proof_count) :
           proof_metadata.delegation_proof_count[i][2] = 2
    /\ rec_out[2] = TRUE

\* C14: for the Multiple and Only strategies the planner answers false at
\* proof_level 0 whatever the metadata, so a driver that starts the second
\* layer at proof_level 0 and raises it by one per iteration never stops
\* after one iteration; for UseReducedLog23Machine the planner answers true
\* at the first iteration (proof_level 0, reduced_log_23_proof_count 1),
\* so the driver stops after exactly one.
C14_SecondLayerIterations ==
    /\ (rec_op = "second_layer" /\ proof_level = 1 /\ MultipleOrOnly)
          => rec_out = "false"
    /\ (rec_op = "finished" /\ MultipleOrOnly) => proof_level >= 1
    /\ (rec_op = "finished" /\ strategy = "UseReducedLog23Machine")
          => (proof_level = 0 /\ proof_metadata.reduced_log_23_proof_count = 1)
    /\ (strategy = "UseReducedLog23Machine" /\ rec_op # "idle"
            /\ proof_metadata.reduced_log_23_proof_count = 1)
          => (proof_level = 0 /\ rec_op \in {"second_layer", "finished"})

\* the driver of a Multiple or Only strategy stopped after its second
\* iteration
C14_Witness ==
    /\ rec_op = "finished"
    /\ MultipleOrOnly
    /\ proof_level = 1
    /\ rec_out = "true"

\* the constants generate_constants_for_binary was called
Called == gc_fn \in {"execution_utils", "cli"}

\* the entries the cached universal chain of the strategy must hold
CachedUniversalEntries ==
    LET base_params ==
            [kind |-> "params", of |-> base_layer_bin, machine |-> "Standard",
             entries |-> <<>>]
    IN  CASE recursion_mode = "UseReducedLog23Machine" ->
                <<ZeroDigest, base_params, universal_circuit_verifier_vk>>
          [] recursion_mode = "UseReducedLog23MachineMultiple" ->
                <<ZeroDigest, base_params, universal_circuit_verifier_vk,
                  universal_circuit_log_23_verifier_vk>>
          [] recursion_mode = "UseReducedLog23MachineOnly" ->
                <<ZeroDigest, base_params, universal_circuit_log_23_verifier_vk>>

\* C16: with universal_verifier = true and recompute = false the call
\* returns, for each of the three strategies, the universal log-23 verifier
\* key digest as end_params and, as aux_values, the chain encoding of
\* exactly [zero, base_params, univ_vk] for UseReducedLog23Machine,
\* [zero, base_params, univ_vk, univ_log23_vk] for
\* UseReducedLog23MachineMultiple and [zero, base_params, univ_log23_vk]
\* for UseReducedLog23MachineOnly, in this order.
C16_UniversalCachedChains ==
    (Called /\ universal_verifier /\ ~recompute
        /\ recursion_mode \in RecursionStrategy)
      => /\ gc_out.ok
         /\ gc_out.end_params = universal_circuit_log_23_verifier_vk
         /\ gc_out.aux_values.kind = "chain"
         /\ gc_out.aux_values.entries = CachedUniversalEntries

\* execution_utils returned the four-entry chain of the Multiple strategy
C16_Witness ==
    /\ gc_fn = "execution_utils"
    /\ universal_verifier
    /\ ~recompute
    /\ recursion_mode = "UseReducedLog23MachineMultiple"
    /\ gc_out.ok
    /\ Len(gc_out.aux_values.entries) = 4
    /\ gc_out.aux_values.entries[4] = universal_circuit_log_23_verifier_vk

\* C17 as stated: with universal_verifier = false the call succeeds only
\* for UseReducedLog23Machine, with recompute true or false.
C17_NonUniversalOnlyFirstStrategy ==
    (Called /\ ~universal_verifier)
      => (gc_out.ok <=> recursion_mode = "UseReducedLog23Machine")

----------------------------------------------------------------------------
(* Claims about substitute_variable with a literal (SpecSubstituteLiteral) *)

\* the value of the linear factor f = p*v + q at v = k
FactorAt(f, v, k) == (PolyCoeff(f, <<v>>) * k + PolyCoeff(f, <<>>)) % FieldModulus

\* substitute_variable was called on the product of the two factors
SubstitutedLiteral == alg_op \in {"substitute_variable", "panic_substitute"}

\* the product is (x + 1) * (x + 1) and the literal is 2
SquareOfXPlusOne ==
    /\ alg_in = LinearFactor(F_ONE, variable, F_ONE)
    /\ rhs_terms = LinearFactor(F_ONE, variable, F_ONE)
    /\ alg_val = 2

\* C18 as stated: for C = (x + 1) * (x + 1) the call
\* C.substitute_variable(x, 2) returns a constraint that normalizes to the
\* single constant term 9.
C18_SquareSubstitutesToNine ==
    (SubstitutedLiteral /\ SquareOfXPlusOne)
      => /\ alg_op = "substitute_variable"
         /\ Constraint_normalize(alg_out.terms) = Ok(<<Constant(9 % FieldModulus)>>)

\* C18: for C = (x + 1) * (x + 1), and for every product of two linear
\* factors that both contain x, the call C.substitute_variable(x, k) panics
\* and returns no constraint, because x has multiplicity 2 in the term x*x;
\* when only one factor contains x the call returns the normalized other
\* factor scaled by the value of that factor at x = k.
C18_SubstituteLiteralPanicsOnSquare ==
    SubstitutedLiteral =>
        LET in_first == Constraint_contains_var(alg_in, variable)
            in_second == Constraint_contains_var(rhs_terms, variable)
        IN  /\ (in_first /\ in_second) => alg_op = "panic_substitute"
            /\ SquareOfXPlusOne => alg_op = "panic_substitute"
            /\ (in_first /\ ~in_second) =>
                  /\ alg_op = "substitute_variable"
                  /\ Canonical(alg_out.terms)
                  /\ PolyEq(alg_out.terms,
                            Constraint_scale(rhs_terms,
                                             FactorAt(alg_in, variable, alg_val)))
            /\ (~in_first /\ in_second) =>
                  /\ alg_op = "substitute_variable"
                  /\ Canonical(alg_out.terms)
                  /\ PolyEq(alg_out.terms,
                            Constraint_scale(alg_in,
                                             FactorAt(rhs_terms, variable, alg_val)))

\* substitute_variable(x, 2) was called on (x + 1) * (x + 1) = x*x + 2x + 1
\* and panicked
C18_Witness ==
    /\ alg_op = "panic_substitute"
    /\ SquareOfXPlusOne
    /\ Len(self_terms) = 3
    /\ Constraint_degree_for_var(self_terms, variable) = 2

----------------------------------------------------------------------------
(* Claims about split_max_quadratic (SpecSplit) *)

\* the terms the triple stands for: coeff*a*b, coeff*a and the constant
RECURSIVE QuadraticTerms(_)
QuadraticTerms(q) ==
    IF q = <<>> THEN <<>>
    ELSE <<Expression(Head(q)[1], <<Head(q)[2], Head(q)[3]>>)>> \o QuadraticTerms(Tail(q))

RECURSIVE LinearTerms(_)
LinearTerms(l) ==
    IF l = <<>> THEN <<>>
    ELSE <<Expression(Head(l)[1], <<Head(l)[2]>>)>> \o LinearTerms(Tail(l))

TripleTerms(t) ==
    QuadraticTerms(t.quadratic) \o LinearTerms(t.linear) \o <<Constant(t.constant)>>

HoldsTermAbove(ts, d) == \E i \in 1 .. Len(ts) : Term_degree(ts[i]) > d

SplitCalled == alg_op \in {"split_max_quadratic", "panic"}

\* C19 as stated: split_max_quadratic panics for every constraint that
\* holds a term of degree 3 or 4, and for every constraint whose terms all
\* have degree at most 2 it returns a triple whose sum is the input
\* polynomial.
C19_SplitPanicsExactlyOnTermAboveTwo ==
    SplitCalled =>
        IF HoldsTermAbove(alg_in, 2) THEN alg_op = "panic"
        ELSE alg_op = "split_max_quadratic" /\ PolyEq(TripleTerms(split_out), alg_in)

----------------------------------------------------------------------------
(* Claims about commutativity (SpecCommute) *)

\* C20: commutativity: C + D and D + C have identical term sequences, and
\* C * D and D * C have identical term sequences, one of the two products
\* failing with a degree overflow exactly when the other does.
C20_AddAndMulCommute ==
    /\ alg_op = "add" => alg_out = commuted_out
    /\ alg_op = "mul" =>
          /\ alg_out.ok <=> commuted_out.ok
          /\ alg_out.terms = commuted_out.terms

\* two different operands with like terms were multiplied both ways
C20_Witness ==
    /\ alg_op = "mul"
    /\ self_terms # rhs_terms
    /\ Len(self_terms) = MaxOperandTerms
    /\ Len(rhs_terms) = MaxOperandTerms
    /\ alg_out.ok
    /\ Len(alg_out.terms) >= 2

----------------------------------------------------------------------------
(* Claims about the two paths of generate_constants_for_binary             *)
(* (SpecConstants)                                                         *)

\* the end parameters a stored verification key stands for: the same-named
\* verifier binary on its machine
KeyAsParams(d) ==
    CASE d = universal_circuit_verifier_vk ->
            generate_params_for_binary(UNIVERSAL_CIRCUIT_VERIFIER, "Reduced")
      [] d = universal_circuit_log_23_verifier_vk ->
            generate_params_for_binary(UNIVERSAL_CIRCUIT_VERIFIER, "ReducedLog23")
      [] d = universal_circuit_no_delegation_verifier_vk ->
            generate_params_for_binary(UNIVERSAL_CIRCUIT_NO_DELEGATION_VERIFIER,
                                       "ReducedFinal")
      [] d = base_layer_verifier_vk ->
            generate_params_for_binary(BASE_LAYER_VERIFIER, "Reduced")
      [] d = recursion_layer_verifier_vk ->
            generate_params_for_binary(RECURSION_LAYER_VERIFIER, "Reduced")
      [] d = recursion_log_23_layer_verifier_vk ->
            generate_params_for_binary(RECURSION_LAYER_VERIFIER, "ReducedLog23")
      [] d = recursion_layer_no_delegation_verifier_vk ->
            generate_params_for_binary(RECURSION_LAYER_NO_DELEGATION_VERIFIER,
                                       "ReducedFinal")
      [] d = final_recursion_layer_verifier_vk ->
            generate_params_for_binary(FINAL_RECURSION_LAYER_VERIFIER, "ReducedFinal")
      [] OTHER -> d

\* the layers a result binds: end parameters and chain entries, every key
\* read as the parameters it stands for
BoundLayers(out) ==
    [ok |-> out.ok,
     end_params |-> KeyAsParams(out.end_params),
     entries |-> [i \in 1 .. Len(out.aux_values.entries) |->
                     KeyAsParams(out.aux_values.entries[i])]]

\* the result of the same call on the other path
OtherPath ==
    IF gc_fn = "execution_utils"
    THEN generate_constants_for_binary(base_layer_bin, recursion_mode,
                                       universal_verifier, ~recompute)
    ELSE cli_generate_constants_for_binary(base_layer_bin, recursion_mode,
                                           universal_verifier, ~recompute)

\* the result of the same call in the other copy of the function
OtherCopy ==
    IF gc_fn = "execution_utils"
    THEN cli_generate_constants_for_binary(base_layer_bin, recursion_mode,
                                           universal_verifier, recompute)
    ELSE generate_constants_for_binary(base_layer_bin, recursion_mode,
                                       universal_verifier, recompute)

\* C29: for every accepted strategy and verifier mode the recompute path and
\* the cached path chain the same entries in the same order after the zero
\* digest and return the same end parameters, reading each stored key as
\* the parameters of the same-named verifier on its machine; and the
\* execution_utils copy and the command line copy agree on the three shared
\* strategies.
C29_RecomputeAndCachedBindSameLayers ==
    (Called /\ gc_out.ok) =>
        /\ BoundLayers(gc_out) = BoundLayers(OtherPath)
        /\ recursion_mode \in RecursionStrategy => gc_out = OtherCopy

----------------------------------------------------------------------------
(* Claims about the end of a worker run (SpecWorker) *)

TerminalResultOf(m) ==
    CASE m = "TraceTouchedRam" -> "RAMTracingResult"
      [] m = "TraceCycles" -> "CyclesTracingResult"
      [] m = "TraceDelegations" -> "DelegationTracingResult"

TerminalResults == {i \in 1 .. Len(results) : IsTerminalResult(results[i])}

\* the worker function returned or panicked
WorkerStopped == pc \in {"done", "panic"}

\* C26: in every mode a worker whose simulator halted within the bound has
\* sent, when it stops, exactly one terminal result message, of the kind of
\* its mode, and that message is the last one it sent.
C26_OneTerminalResultSentLast ==
    (WorkerStopped /\ end_reached) =>
        /\ Cardinality(TerminalResults) = 1
        /\ TerminalResults = {Len(results)}
        /\ results[Len(results)].msg = TerminalResultOf(mode)

\* C28: in Mode C, at halt, every pending delegation state is finalized the
\* way the swap function finalizes a previous state: a pending Witness is
\* sent as a DelegationWitness whose circuit_sequence is the type's chunk
\* count and the count is then raised by one; a pending Counter raises the
\* count by one without a message; so the counts of DelegationTracingResult
\* are the numbers of finalized states.
C28_DrainFinalizesLikeSwap ==
    [][(pc = "drain" /\ tracing_types' # tracing_types) =>
          \E t \in (DOMAIN tracing_types) \ (DOMAIN tracing_types') :
              LET tracing_type == tracing_types[t]
                  value == GetOrDefault(delegation_chunks_counts, t)
              IN  /\ pc' = "drain"
                  /\ GetOrDefault(delegation_chunks_counts', t) = value + 1
                  /\ IF tracing_type.kind = "Witness"
                     THEN results' = Append(results,
                                            DelegationWitness(t, value, tracing_type.count))
                     ELSE results' = results]_vars

----------------------------------------------------------------------------
(* Claims about blocking in Mode C (SpecDelegationsFair) *)

\* the worker waits in free_allocator.recv()
AtRecv == pc \in {"first_recv", "swap_recv"}

\* C27: in Mode C, with a pool of at least one allocator and a consumer
\* that puts back the allocator of every DelegationWitness it receives, the
\* worker never waits forever in free_allocator.recv(), whatever the number
\* of delegation types with a pending witness, and every run whose
\* simulator halts within the bound eventually sends
\* DelegationTracingResult.
C27_RecvNeverBlocksForever ==
    /\ AtRecv ~> ~AtRecv
    /\ end_reached ~> (MessagesOf("DelegationTracingResult") # {})

----------------------------------------------------------------------------
(* Claims about the verifier oracle encoder (SpecOracle) *)

UniversalCalled == oracle_fn = "generate_oracle_data_for_universal_verifier"

\* the stream holds a word at position pos
IsWordAt(data, pos) == pos \in 1 .. Len(data) /\ data[pos].kind = "word"

\* the stream holds at position pos the block of proof p: its skeleton,
\* flattened with or without shuffle, then its queries in order
BlockAt(data, pos, p, shuffle) ==
    /\ pos + p.queries <= Len(data)
    /\ data[pos] = [kind |-> "skeleton", value |-> shuffle, proof |-> p]
    /\ \A q \in 1 .. p.queries :
           data[pos + q] = [kind |-> "query", value |-> q, proof |-> p]

RECURSIVE ReadProofs(_, _, _, _, _)
\* Reads from position pos the blocks of the proofs list[k], list[k + 1], ..
\* up to list[n]; the position after the last block, 0 when the stream
\* holds something else.
ReadProofs(data, pos, list, shuffle, k) ==
    IF k > Len(list) THEN pos
    ELSE IF BlockAt(data, pos, list[k], shuffle)
    THEN ReadProofs(data, pos + 1 + list[k].queries, list, shuffle, k + 1)
    ELSE 0

\* the first n proofs of a list
FirstProofs(list, n) == [i \in 1 .. n |-> list[i]]

\* the proofs the proof list holds for a delegation type
ListedProofs(key) == FindDelegationProofs(oracle_proofs.delegation_proofs, key)

RECURSIVE ReadDelegations(_, _, _, _)
\* Reads from position pos, for the d-th allowed type and the ones after it,
\* one count word and that many blocks of the type's proofs; the position
\* after the last one, 0 when the stream holds something else.
ReadDelegations(data, pos, delegations, d) ==
    IF d > Len(delegations) THEN pos
    ELSE IF pos = 0 \/ ~IsWordAt(data, pos) THEN 0
    ELSE LET count == data[pos].value
             listed == ListedProofs(delegations[d])
             next == IF count = Len(listed)
                     THEN ReadProofs(data, pos + 1, listed, 0, 1) ELSE 0
         IN IF next = 0 THEN 0 ELSE ReadDelegations(data, next, delegations, d + 1)

\* the allowed set of the machine a prefix word selects
AllowedOfPrefix(prefix) ==
    IF prefix = BaseLayer THEN full_machine_allowed_delegation_types
    ELSE reduced_machine_allowed_delegation_types

\* the main list a prefix word selects
MainListOfPrefix(prefix) ==
    IF prefix = BaseLayer THEN oracle_proofs.basic_proofs
    ELSE IF prefix = RecursionLayer THEN oracle_proofs.reduced_proofs
    ELSE oracle_proofs.reduced_log_23_proofs

\* position of the count word of the main-layer proofs
MainCountPos == 1 + 3 * NumRegisters + 1

\* C21: generate_oracle_data_for_universal_verifier returns, in this order
\* and with nothing else: one prefix word; for each of the 32 registers in
\* index order the words value, ts_low, ts_high; one count word followed by
\* exactly that many main-layer skeleton-plus-queries blocks; for each
\* allowed delegation type of the selected machine, in the allowed set's
\* order and also when the type has no proofs, one count word followed by
\* exactly that many delegation proofs; and the 8 words of
\* prev_end_params_output exactly when it is present.
C21_OracleLayout ==
    (UniversalCalled /\ oracle_out.ok) =>
        LET data == oracle_out.data
            prev == oracle_metadata.prev_end_params_output
            after_main ==
                IF IsWordAt(data, MainCountPos)
                      /\ data[MainCountPos].value <= Len(MainListOfPrefix(data[1].value))
                THEN ReadProofs(data, MainCountPos + 1,
                                FirstProofs(MainListOfPrefix(data[1].value),
                                            data[MainCountPos].value), 1, 1)
                ELSE 0
            after_delegations ==
                ReadDelegations(data, after_main, AllowedOfPrefix(data[1].value), 1)
        IN  /\ IsWordAt(data, 1)
            /\ \A i \in 1 .. NumRegisters :
                   LET register == oracle_metadata.register_values[i]
                       ts == register.last_access_timestamp
                   IN  /\ data[3 * i - 1] = Word(register.value)
                       /\ data[3 * i] = Word(ts % (2 ^ TimestampColumnsNumBits))
                       /\ data[3 * i + 1] = Word(ts \div (2 ^ TimestampColumnsNumBits))
            /\ after_main # 0
            /\ after_delegations # 0
            /\ Len(data) = after_delegations - 1 + Len(prev)
            /\ \A i \in 1 .. Len(prev) :
                   data[after_delegations - 1 + i] = Word(prev[i])

\* a base-layer stream with the previous end parameters, a Blake2 delegation
\* proof and no big-integer delegation proof
C21_Witness ==
    /\ UniversalCalled
    /\ oracle_out.ok
    /\ oracle_out.data[1] = Word(BaseLayer)
    /\ oracle_metadata.prev_end_params_output # <<>>
    /\ Len(ListedProofs(Blake2DelegationCsr)) = 1
    /\ Len(ListedProofs(BigIntDelegationCsr)) = 0

\* the prefix word the first nonzero main count selects, -1 for none
PrefixOfCounts(metadata) ==
    IF metadata.basic_proof_count > 0 THEN 0
    ELSE IF metadata.reduced_proof_count > 0 THEN 1
    ELSE IF metadata.reduced_log_23_proof_count > 0 THEN 5
    ELSE -1

\* the lists the main-layer blocks of the stream come from
MainListsIn(data) ==
    {data[i].proof.list : i \in {j \in 1 .. Len(data) :
        data[j].kind # "word" /\ data[j].proof.list # "delegation_proofs"}}

\* C22: the prefix word is 0 when basic_proof_count > 0, otherwise 1 when
\* reduced_proof_count > 0, otherwise 5 when reduced_log_23_proof_count > 0,
\* and the main-layer proofs encoded belong to that layer kind; a metadata
\* whose three main counts are zero makes the encoder fail without output,
\* a delegation type of the metadata outside the machine's allowed set makes
\* it fail, and no other prefix is produced.
C22_PrefixFollowsFirstNonzeroCount ==
    UniversalCalled =>
        LET prefix == PrefixOfCounts(oracle_metadata)
            counts == oracle_metadata.delegation_proof_count
        IN  /\ oracle_out.ok =>
                /\ prefix \in {0, 1, 5}
                /\ oracle_out.data[1] = Word(prefix)
                /\ MainListsIn(oracle_out.data) =
                       {IF prefix = 0 THEN "basic_proofs"
                        ELSE IF prefix = 1 THEN "reduced_proofs"
                        ELSE "reduced_log_23_proofs"}
            /\ prefix = -1 => oracle_out = NoOracle
            /\ (\E i \in 1 .. Len(counts) :
                    \A d \in 1 .. Len(AllowedOfPrefix(prefix)) :
                        AllowedOfPrefix(prefix)[d] # counts[i][1])
                   => oracle_out = NoOracle

\* a metadata with only reduced_log_23_proof_count = 1: the stream starts with 5
C22_Witness ==
    /\ UniversalCalled
    /\ oracle_metadata.basic_proof_count = 0
    /\ oracle_metadata.reduced_proof_count = 0
    /\ oracle_metadata.reduced_log_23_proof_count = 1
    /\ oracle_out.ok
    /\ oracle_out.data[1] = Word(5)
    /\ oracle_out.data[MainCountPos] = Word(1)

\* metadata.delegation_proof_count for a type, 0 when the type is absent
MetadataCount(key) ==
    LET counts == oracle_metadata.delegation_proof_count
        hits == {i \in 1 .. Len(counts) : counts[i][1] = key}
    IN IF hits = {} THEN 0 ELSE counts[CHOOSE i \in hits : TRUE][2]

\* number of proofs of a list (and delegation type) the stream encodes
EncodedProofs(data, list, key) ==
    Cardinality({i \in 1 .. Len(data) :
        /\ data[i].kind = "skeleton"
        /\ data[i].proof.list = list
        /\ data[i].proof.key = key})

RECURSIVE DelegationCountWords(_, _, _, _)
\* the count words of the allowed types, read as the verifier reads them
DelegationCountWords(data, pos, delegations, d) ==
    IF d > Len(delegations) THEN <<>>
    ELSE <<data[pos].value>> \o
         DelegationCountWords(data,
             pos + 1 + Len(FlattenDelegationProofList(ListedProofs(delegations[d]), 1)),
             delegations, d + 1)

\* C30: the oracle stream agrees with the metadata: for every allowed
\* delegation type the count word equals metadata.delegation_proof_count of
\* the type (0 when absent), and every proof the metadata counts (basic,
\* reduced, reduced log-23, delegation) is encoded, for every metadata and
\* proof list the encoder accepts.
C30_StreamAgreesWithMetadata ==
    (UniversalCalled /\ oracle_out.ok) =>
        LET data == oracle_out.data
            allowed == AllowedOfPrefix(data[1].value)
            main_end == MainCountPos + 1
                + Len(FlattenMainProofs(MainListOfPrefix(data[1].value), 1,
                                        data[MainCountPos].value))
            words == DelegationCountWords(data, main_end, allowed, 1)
        IN  /\ \A d \in 1 .. Len(allowed) :
                   /\ words[d] = MetadataCount(allowed[d])
                   /\ EncodedProofs(data, "delegation_proofs", allowed[d])
                          = MetadataCount(allowed[d])
            /\ EncodedProofs(data, "basic_proofs", 0) = oracle_metadata.basic_proof_count
            /\ EncodedProofs(data, "reduced_proofs", 0) = oracle_metadata.reduced_proof_count
            /\ EncodedProofs(data, "reduced_log_23_proofs", 0)
                   = oracle_metadata.reduced_log_23_proof_count

----------------------------------------------------------------------------
(* Claims about the stage-1 public inputs (SpecStageOne) *)

\* the circuit artifact declares a public input at LastRow
DeclaresLastRow == ClosurePanics(circuit_public_inputs)

\* C23: produce_public_inputs (and commit_witness, which calls it) fails
\* when the circuit declares a public input at LastRow: the call does not
\* return Ok and no public-inputs vector is stored in the output.
C23_LastRowFailsTheCall ==
    (DeclaresLastRow /\ st1_calls > 0) =>
        /\ st1_result # "Ok"
        /\ ~public_inputs.some

----------------------------------------------------------------------------
(* Claims about the concurrent host allocator (SpecContext) *)

\* C24: the concurrent host allocator is initialized at most once under
\* any interleaving of the callers: the guard lets exactly one caller reach
\* initialize_global, every later or concurrent caller fails the guard, and
\* a call whose pinned allocation fails returns the error and leaves the
\* allocator uninitialized.
C24_InitializedAtMostOnce ==
    /\ initialize_global_calls <= 1
    /\ Cardinality({t \in DOMAIN ctx_pc : ctx_pc[t] = "Ok"}) <= 1
    /\ \A t \in DOMAIN ctx_pc :
           ctx_pc[t] = "Err" => concurrent_host_allocator # t

----------------------------------------------------------------------------
(* Claims about the memory commitment job (SpecMemory) *)

\* position of the first occurrence of x in a sequence, 0 when absent
PositionIn(seq, x) ==
    IF \E i \in 1 .. Len(seq) : seq[i] = x
    THEN CHOOSE i \in 1 .. Len(seq) : seq[i] = x /\ \A j \in 1 .. i - 1 : seq[j] # x
    ELSE 0

\* x occurs in the sequence, and before y when y occurs too
Precedes(seq, x, y) ==
    /\ PositionIn(seq, x) # 0
    /\ PositionIn(seq, y) # 0 => PositionIn(seq, x) < PositionIn(seq, y)

\* finish went past the synchronization
FinishDropped == PositionIn(mem_calls, "drop(callbacks)") # 0

\* the stream is synchronized: is_finished_event was recorded behind the
\* closure, the stream has passed it, and synchronize() returned Ok
StreamSynchronized ==
    /\ Precedes(mem_calls, "callbacks.schedule", "is_finished_event.record")
    /\ Precedes(mem_calls, "is_finished_event.record", "is_finished_event.synchronize")
    /\ mem_fails # "is_finished_event.synchronize"
    /\ Precedes(exec_done, "transform_tree_caps_fn", "is_finished_event")
    /\ PositionIn(exec_done, "is_finished_event") # 0

\* the closure was queued on the exec stream
ClosureScheduled ==
    PositionIn(exec_stream \o exec_done, "transform_tree_caps_fn") # 0

\* C25: for a memory commitment job, the closure runs only after the device
\* work queued before it and its Callbacks collection is never dropped
\* before the stream is synchronized: once the closure is scheduled, the
\* collection is dropped only after is_finished_event, recorded after the
\* closure, was synchronized, and the closure never runs on a dropped
\* collection; finish synchronizes before it drops the collection and before
\* it reads tree_caps, the closure has run exactly once by then, so
\* tree_caps is Some when unwrapped; commit_memory calls ensure_transferred
\* before it queues any kernel on the exec stream.
C25_CallbacksNeverDroppedBeforeSynchronized ==
    /\ (ClosureScheduled /\ mem_callbacks = "dropped") => StreamSynchronized
    /\ ~tree_caps.undefined
    /\ FinishDropped =>
           /\ StreamSynchronized
           /\ Precedes(mem_calls, "is_finished_event.synchronize", "drop(callbacks)")
           /\ Precedes(mem_calls, "drop(callbacks)", "tree_caps.unwrap")
           /\ tree_caps.writes = 1
           /\ tree_caps.some
           /\ ~tree_caps.assert_failed
           /\ mem_result # "panic"
    /\ PositionIn(exec_done, "transform_tree_caps_fn") # 0 =>
           \A k \in Kernels :
               PositionIn(mem_calls \o exec_stream \o exec_done, k) # 0
                   => Precedes(exec_done, k, "transform_tree_caps_fn")
    /\ \A c \in {"generate_memory_values",
                 "make_evaluations_sum_to_zero_extend_and_commit"} :
           PositionIn(mem_calls, c) # 0 => Precedes(mem_calls, "ensure_transferred", c)
    /\ \A k \in Kernels :
           PositionIn(exec_done, k) # 0 =>
               transfer_done /\ Precedes(exec_done, "wait_transfer", k)

====
